---------------------------- MODULE Spec2Model ----------------------------
(***************************************************************************)
(* Autosync: webhook relay between series/movie manager instances and      *)
(* media-library servers.                                                  *)
(*                                                                         *)
(* The model follows src/main.py (webhook_handler, process_webhook,        *)
(* handle_sonarr_delete), src/sonarr_service.py (handle_sonarr_grab,       *)
(* handle_sonarr_import, handle_sonarr_series_add),                        *)
(* src/media_server_service.py (MediaServerScanner) and src/models.py      *)
(* (SonarrInstance).                                                       *)
(*                                                                         *)
(* The service runs on one asyncio event loop: a coroutine runs without    *)
(* interruption up to its next await.  Every action below is one such      *)
(* segment of one delivery (background task); deliveries interleave only   *)
(* at the awaits (asyncio.sleep, aiohttp requests).  The blocking          *)
(* `requests` calls (add_series, search_series) do not yield, so they are  *)
(* part of the segment that issues them.                                   *)
(***************************************************************************)
EXTENDS Integers, Sequences, FiniteSets, TLC

VARIABLES
    config,            \* utils.CONFIG: webhook_events, media_servers, sync_delay, sync_interval
    sonarr_instances,  \* main.sonarr_instances (module global)
    radarr_instances,  \* main.radarr_instances (module global)
    catalog,           \* upstream state: instance name -> has a record for the catalog id
    flaky,             \* upstream state: names of instances / servers whose calls may fail
    tasks,             \* background tasks created by webhook_handler, by webhook id
    responses,         \* synchronous HTTP responses of POST /webhook, in order
    eval               \* a call of a pure helper: its arguments and its results so far

vars == <<config, sonarr_instances, radarr_instances, catalog, flaky, tasks, responses, eval>>

(***************************************************************************)
(* Bounds                                                                  *)
(***************************************************************************)
\* number of webhooks received in one run of the concurrent specification
MaxDeliveries == 2

(***************************************************************************)
(* Paths.  A path is a sequence of segments; <<>> is the empty string and  *)
(* a leading "/" segment is the root.                                      *)
(***************************************************************************)
NoPath == <<>>

\* pathlib: str(Path(p).parent)
PathParent(p) ==
    IF p = <<>> THEN <<".">>
    ELSE IF Len(p) = 1 THEN (IF p[1] = "/" THEN p ELSE <<".">>)
    ELSE SubSeq(p, 1, Len(p) - 1)

SeriesPath == <<"/", "tv", "Show">>
EpisodePath == <<"/", "tv", "Show", "S01", "e1.mkv">>
MoviePath == <<"/", "movies", "Film">>
MovieFilePath == <<"/", "movies", "Film", "Film.mkv">>

(***************************************************************************)
(* Time strings (sync_delay, sync_interval) are sequences of characters.   *)
(* parse_time_string returns seconds as a fraction <<num, den>>.           *)
(***************************************************************************)
Digits == {"0", "1", "2", "3", "4", "5", "6", "7", "8", "9"}

DigitVal(c) ==
    CASE c = "0" -> 0 [] c = "1" -> 1 [] c = "2" -> 2 [] c = "3" -> 3
      [] c = "4" -> 4 [] c = "5" -> 5 [] c = "6" -> 6 [] c = "7" -> 7
      [] c = "8" -> 8 [] c = "9" -> 9

RECURSIVE DecVal(_)
DecVal(s) == IF s = <<>> THEN 0 ELSE 10 * DecVal(SubSeq(s, 1, Len(s) - 1)) + DigitVal(s[Len(s)])

RECURSIVE Pow10(_)
Pow10(n) == IF n = 0 THEN 1 ELSE 10 * Pow10(n - 1)

AllDigits(s) == s # <<>> /\ \A k \in 1..Len(s) : s[k] \in Digits

\* str.isdigit(): every character is a digit, the superscript digits included
IsDigit(s) == s # <<>> /\ \A k \in 1..Len(s) : s[k] \in Digits \cup {"²"}

\* what parse_time_string yields when float() raises ValueError: no value,
\* written as a fraction without denominator
ValueError == <<0, 0>>

\* re.match with a pattern ending in $: the end of the pattern also matches
\* just before a newline that ends the string
BeforeNewline(s) ==
    IF Len(s) >= 1 /\ s[Len(s)] = "LF" THEN SubSeq(s, 1, Len(s) - 1) ELSE s

\* length of the unit suffix (ms|s|m) of s, 0 when there is none
UnitLen(s) ==
    IF Len(s) >= 2 /\ s[Len(s) - 1] = "m" /\ s[Len(s)] = "s" THEN 2
    ELSE IF Len(s) >= 1 /\ s[Len(s)] \in {"s", "m"} THEN 1
    ELSE 0

\* the number part matches \d+(?:\.\d+)?
IsNumber(s) ==
    \/ AllDigits(s)
    \/ \E k \in 1..Len(s) :
          /\ s[k] = "."
          /\ AllDigits(SubSeq(s, 1, k - 1))
          /\ AllDigits(SubSeq(s, k + 1, Len(s)))

\* value of a number part as a fraction <<num, den>>
NumberVal(s) ==
    IF AllDigits(s) THEN <<DecVal(s), 1>>
    ELSE LET k == CHOOSE k \in 1..Len(s) : s[k] = "."
             frac == SubSeq(s, k + 1, Len(s))
         IN  <<DecVal(SubSeq(s, 1, k - 1)) * Pow10(Len(frac)) + DecVal(frac), Pow10(Len(frac))>>

parse_time_string(s) ==
    IF s = <<>> THEN <<0, 1>>
    ELSE IF IsDigit(s) THEN (IF AllDigits(s) THEN <<DecVal(s), 1>> ELSE ValueError)
    ELSE LET b == BeforeNewline(s)
             u == UnitLen(b)
             n == SubSeq(b, 1, Len(b) - u)
         IN  IF u > 0 /\ IsNumber(n)
             THEN LET v == NumberVal(n)
                  IN  IF u = 2 THEN <<v[1], v[2] * 1000>>
                      ELSE IF b[Len(b)] = "s" THEN v
                      ELSE <<v[1] * 60, v[2]>>
             ELSE <<0, 1>>

Positive(f) == f[1] > 0

(***************************************************************************)
(* Event names                                                             *)
(***************************************************************************)
\* str.lower() on the event-name vocabulary
LowerTable ==
    [Grab |-> "grab", Download |-> "download", Import |-> "import",
     Rename |-> "rename", SeriesDelete |-> "seriesdelete",
     EpisodeFileDelete |-> "episodefiledelete", SeriesAdd |-> "seriesadd",
     MovieDelete |-> "moviedelete", MovieFileDelete |-> "moviefiledelete",
     MovieAdded |-> "movieadded", ManualScan |-> "manualscan", Test |-> "test"]

Lower(s) == IF s \in DOMAIN LowerTable THEN LowerTable[s] ELSE s

\* default webhook_events written by save_config
SonarrDefaultEvents ==
    {"Grab", "Download", "Rename", "SeriesDelete", "EpisodeFileDelete", "Import", "SeriesAdd"}
RadarrDefaultEvents ==
    {"Grab", "Download", "Rename", "MovieDelete", "MovieFileDelete", "Import"}

(***************************************************************************)
(* Configuration values.  An instance is [name, enabled_events,            *)
(* search_on_sync]; a media server entry is [name, type, enabled, rewrite], *)
(* where enabled is "true", "false" or "absent" (the key is missing) and   *)
(* rewrite is the server's list of path rewrite rules.                     *)
(***************************************************************************)
\* the root folder and the quality profile configured for an instance
RootFolder(n) == IF n = "s1" THEN <<"/", "tv">> ELSE <<"/", "mnt", "tv">>
QualityProfile(n) == IF n = "s1" THEN 1 ELSE 4

Inst(n, ev, s) ==
    [name |-> n, enabled_events |-> ev, search_on_sync |-> s,
     root_folder_path |-> RootFolder(n), quality_profile_id |-> QualityProfile(n)]

\* the rewrite rules configured for a server: the Plex server mounts /tv as /media/tv
ServerRewrite(n) ==
    IF n = "plex"
    THEN <<[from_path |-> <<"/", "tv">>, to_path |-> <<"/", "media", "tv">>]>>
    ELSE <<>>

Srv(n, t, e) == [name |-> n, type |-> t, enabled |-> e, rewrite |-> ServerRewrite(n)]

SonarrAll == {"Grab", "Import", "SeriesDelete", "EpisodeFileDelete", "SeriesAdd", "Rename"}
RadarrAll == {"Grab", "Import", "MovieDelete", "MovieFileDelete", "MovieAdded", "Rename"}

InstanceNames == {"s1", "s2", "r1"}
ServerNames == {"plex", "jelly", "emby", "kodi"}

\* the characters of the configured duration strings
TimeStrings == {<<"0">>, <<"5", "s">>}

(***************************************************************************)
(* Webhook payloads: [eventType, kind, valid, path, filePath, contentType].*)
(* kind says which discriminant key the body has ("series", "movie" or     *)
(* "none"); valid says whether the body passes the pydantic webhook model; *)
(* path is series.path / movie.folderPath (or the top-level path of a      *)
(* ManualScan); filePath is episodeFile.path / movieFile.path.             *)
(***************************************************************************)
Payload(e, k, v, p, f, c) ==
    [eventType |-> e, kind |-> k, valid |-> v, path |-> p, filePath |-> f, contentType |-> c]

SeriesPayloads ==
    {Payload(e, "series", TRUE, p, f, "") :
        e \in {"Grab", "Import", "Download", "SeriesAdd", "SeriesDelete",
               "EpisodeFileDelete", "Rename", "Test"},
        p \in {NoPath, SeriesPath}, f \in {NoPath, EpisodePath}}
    \cup {Payload("Import", "series", FALSE, SeriesPath, NoPath, "")}

MoviePayloads ==
    {Payload(e, "movie", TRUE, p, f, "") :
        e \in {"Grab", "Import", "Download", "MovieDelete", "MovieFileDelete",
               "MovieAdded", "Rename"},
        p \in {NoPath, MoviePath}, f \in {NoPath, MovieFilePath}}
    \cup {Payload("Import", "movie", FALSE, MoviePath, NoPath, "")}

OtherPayloads ==
    {Payload("ManualScan", "none", TRUE, p, NoPath, c) :
        p \in {NoPath, SeriesPath}, c \in {"", "series", "movie", "music"}}
    \cup {Payload(e, "none", TRUE, SeriesPath, NoPath, "") : e \in {"", "Grab", "Import"}}
    \cup {Payload("", "series", TRUE, SeriesPath, NoPath, "")}

Payloads == SeriesPayloads \cup MoviePayloads \cup OtherPayloads

(***************************************************************************)
(* Tasks.  pc is the await the task is suspended in:                       *)
(*   scheduled  created by asyncio.create_task, not yet started            *)
(*   delay      asyncio.sleep(sync_delay)                                  *)
(*   interval   asyncio.sleep(sync_interval) between two instances         *)
(*   lookup     GET /api/v3/series?tvdbId= on instance i                   *)
(*   mutate     resumed with the lookup's answer (or the file delete)      *)
(*   prescan    asyncio.sleep(sync_interval) before the scan               *)
(*   settle     asyncio.sleep(2) of a movie scan                           *)
(*   scan       the adapter call on server j                               *)
(*   done       process_webhook returned                                   *)
(* log is the delivery's trace of suspensions and outbound calls; sent is   *)
(* the path argument of each adapter call, by server; posted is the body   *)
(* of each create request, with the answer of the existence check the      *)
(* handler held when it sent the request.                                  *)
(***************************************************************************)
\* no helper call is being followed
NoEval == [fn |-> "none"]

NoRet == [status |-> "none", perInstance |-> <<>>, scanResults |-> <<>>, key |-> "none"]

NewTask(id, payload, delay, interval) ==
    [id |-> id, payload |-> payload, event_type |-> payload.eventType,
     sync_delay |-> delay, sync_interval |-> interval,
     pc |-> "scheduled", product |-> "none", handler |-> "none",
     instances |-> <<>>, i |-> 0, existing |-> FALSE, entries |-> <<>>,
     scanner |-> <<>>, active |-> <<>>, j |-> 0, scanPath |-> NoPath,
     scanResults |-> <<>>, scanned |-> FALSE, sent |-> <<>>, posted |-> <<>>,
     log |-> <<>>, ret |-> NoRet]

Call(op, target, ok) == [op |-> op, target |-> target, ok |-> ok]

Logged(t, op, target, ok) == [t EXCEPT !.log = Append(@, Call(op, target, ok))]

\* variant: an exception leaves process_webhook instead of becoming an outcome
Return_Propagating(t, status, key) ==
    IF status = "error" THEN [t EXCEPT !.pc = "raised"]
    ELSE [t EXCEPT !.pc = "done",
                   !.ret = [status |-> status,
                            perInstance |-> IF key = "none" THEN <<>> ELSE t.entries,
                            scanResults |-> t.scanResults,
                            key |-> key]]

\* process_webhook returns a value (or its outer except returns an error)
Return(t, status, key) ==
    [t EXCEPT !.pc = "done",
              !.ret = [status |-> status,
                       perInstance |-> IF key = "none" THEN <<>> ELSE t.entries,
                       scanResults |-> t.scanResults,
                       key |-> key]]

(***************************************************************************)
(* Scan dispatcher: MediaServerScanner                                     *)
(***************************************************************************)
SupportedTypes == {"plex", "jellyfin", "emby"}

\* MediaServerScanner.__init__: entries of another type are dropped
SupportedServers(servers) ==
    LET Known(s) == s.type \in SupportedTypes IN SelectSeq(servers, Known)

\* MediaServerBase.enabled defaults to True when the key is missing
ServerEnabled(s) == s.enabled # "false"

\* variant: the loop skips no server
ActiveServers_NoSkip(scanner) == scanner

\* the servers the loop of scan_path does not skip
ActiveServers(scanner) == SelectSeq(scanner, ServerEnabled)

ScanEntry(server, type, status) == [server |-> server, type |-> type, status |-> status]

\* the single error entry scan_path returns when it scans nothing
SyntheticError == ScanEntry("none", "none", "error")

HasSuccess(results) == \E k \in 1..Len(results) : results[k].status = "success"

\* the handler's log lines read scan['server'] of every success and error
\* entry: an entry without that key (server "none") raises KeyError
ScanLogRaises(results) == \E k \in 1..Len(results) : results[k].server = "none"

\* variant: a scan for an Import without selected instances is reported as
\* ignored
FinishScan_Ignored(t) ==
    CASE t.handler = "manual" ->
            Return(t, IF HasSuccess(t.scanResults) THEN "ok" ELSE "warning", "none")
      [] t.handler = "noinst" -> Return(t, "ignored", "none")
      [] t.handler = "handle_sonarr_import" ->
            IF ScanLogRaises(t.scanResults) THEN Return(t, "error", "none")
            ELSE Return(t, "ok", "results")
      [] OTHER ->
            IF ScanLogRaises(t.scanResults) THEN Return(t, "error", "none")
            ELSE Return(t, "ok", "none")

\* the value the caller of scan_path builds from the scan results; a KeyError
\* of a handler reaches the outer except of process_webhook
FinishScan(t) ==
    CASE t.handler = "manual" ->
            Return(t, IF HasSuccess(t.scanResults) THEN "ok" ELSE "warning", "none")
      [] t.handler = "noinst" -> Return(t, "ok", "none")
      [] t.handler = "handle_sonarr_import" ->
            IF ScanLogRaises(t.scanResults) THEN Return(t, "error", "none")
            ELSE Return(t, "ok", "results")
      [] OTHER ->
            IF ScanLogRaises(t.scanResults) THEN Return(t, "error", "none")
            ELSE Return(t, "ok", "none")

\* variant: a scan without active servers returns an empty list
ScanStart_Empty(t) ==
    IF t.scanner = <<>> \/ ActiveServers(t.scanner) = <<>>
    THEN FinishScan([t EXCEPT !.scanResults = <<>>])
    ELSE [t EXCEPT !.pc = "scan", !.active = ActiveServers(t.scanner), !.j = 1]

\* scan_path after its optional settle sleep, up to the first adapter call
ScanStart(t) ==
    IF t.scanner = <<>> \/ ActiveServers(t.scanner) = <<>>
    THEN FinishScan([t EXCEPT !.scanResults = <<SyntheticError>>])
    ELSE [t EXCEPT !.pc = "scan", !.active = ActiveServers(t.scanner), !.j = 1]

\* MediaServerScanner(servers) followed by scan_path(path, is_series)
BeginScan(t, servers, path, is_series) ==
    LET t1 == [t EXCEPT !.scanner = SupportedServers(servers),
                        !.scanPath = path, !.scanned = TRUE]
    IN  IF is_series THEN ScanStart(t1)
        ELSE Logged([t1 EXCEPT !.pc = "settle"], "sleep", "settle", TRUE)

(***************************************************************************)
(* Instance sync handlers                                                  *)
(***************************************************************************)
CreatingHandlers ==
    {"handle_sonarr_grab", "handle_sonarr_import", "handle_sonarr_series_add"}

\* the list key under which a handler collects its per-instance entries
ResultKey(h) ==
    CASE h = "handle_sonarr_series_add" -> "adds"
      [] h = "handle_sonarr_delete" -> "deletions"
      [] OTHER -> "results"

Entry(inst, status, key) == [instance |-> inst, status |-> status, key |-> key]

ErrorEntry(inst) == Entry(inst, "error", "none")

ExistsEntry(h, inst) ==
    IF h = "handle_sonarr_series_add" THEN Entry(inst, "skipped", "none")
    ELSE Entry(inst, "none", "existingSeriesId")

CreatedEntry(h, inst) ==
    IF h = "handle_sonarr_series_add" THEN Entry(inst, "success", "seriesId")
    ELSE Entry(inst, "none", "newSeriesId")

\* first await of the loop body for the current instance
FirstOp(t) ==
    IF t.handler = "handle_sonarr_delete" /\ t.payload.eventType = "EpisodeFileDelete"
    THEN "mutate" ELSE "lookup"

\* path scanned by handle_sonarr_delete
DeleteScanPath(p) ==
    IF p.eventType = "EpisodeFileDelete" /\ p.filePath # NoPath THEN p.filePath ELSE p.path

\* variant: the scan starts without the interval sleep
PreScan_NoInterval(t, path) == BeginScan(t, config.media_servers, path, TRUE)

\* the interval sleep before the scan, or the scan at once
PreScan(t, path) ==
    IF Positive(t.sync_interval) /\ t.entries # <<>>
    THEN Logged([t EXCEPT !.pc = "prescan", !.scanPath = path], "sleep", "prescan", TRUE)
    ELSE BeginScan(t, config.media_servers, path, TRUE)

\* the code after the instance loop of a handler
AfterLoop(t) ==
    CASE t.handler = "handle_sonarr_import" ->
            IF t.payload.path # NoPath THEN PreScan(t, t.payload.path)
            ELSE Return(t, "ok", "results")
      [] t.handler = "handle_sonarr_delete" ->
            IF t.payload.path # NoPath THEN PreScan(t, DeleteScanPath(t.payload))
            ELSE Return(t, "error", "none")
      [] OTHER -> Return(t, "ok", ResultKey(t.handler))

\* variant: an error entry ends the instance loop
Advance_StopOnError(t, entry) ==
    LET t1 == [t EXCEPT !.entries = Append(@, entry)]
    IN  IF t1.i < Len(t1.instances) /\ entry.status # "error"
        THEN IF Positive(t1.sync_interval)
             THEN Logged([t1 EXCEPT !.i = @ + 1, !.pc = "interval"], "sleep", "interval", TRUE)
             ELSE [t1 EXCEPT !.i = @ + 1, !.pc = FirstOp(t1)]
        ELSE AfterLoop(t1)

\* the entry of instance i is recorded: go on with the next instance
Advance(t, entry) ==
    LET t1 == [t EXCEPT !.entries = Append(@, entry)]
    IN  IF t1.i < Len(t1.instances)
        THEN IF Positive(t1.sync_interval)
             THEN Logged([t1 EXCEPT !.i = @ + 1, !.pc = "interval"], "sleep", "interval", TRUE)
             ELSE [t1 EXCEPT !.i = @ + 1, !.pc = FirstOp(t1)]
        ELSE AfterLoop(t1)

(***************************************************************************)
(* Event router: process_webhook                                           *)
(***************************************************************************)
\* the handler process_webhook calls for a normalized event, "none" if no branch
HandlerFor(product, et) ==
    IF product = "sonarr"
    THEN CASE et = "Grab" -> "handle_sonarr_grab"
           [] et = "Import" -> "handle_sonarr_import"
           [] et \in {"SeriesDelete", "EpisodeFileDelete"} -> "handle_sonarr_delete"
           [] et = "SeriesAdd" -> "handle_sonarr_series_add"
           [] OTHER -> "none"
    ELSE CASE et = "Grab" -> "handle_radarr_grab"
           [] et = "Import" -> "handle_radarr_import"
           [] et \in {"MovieDelete", "MovieFileDelete"} -> "handle_radarr_delete"
           [] et = "MovieAdded" -> "handle_radarr_movie_add"
           [] OTHER -> "none"

\* number of parameters each handler is declared with
HandlerParams ==
    [handle_sonarr_grab |-> 4, handle_sonarr_import |-> 4,
     handle_sonarr_series_add |-> 4, handle_sonarr_delete |-> 4,
     handle_radarr_grab |-> 2, handle_radarr_import |-> 2,
     handle_radarr_delete |-> 2, handle_radarr_movie_add |-> 2]

\* process_webhook passes (payload, valid_instances, sync_interval, config)
CallArgs == 4

\* "Download" is mapped to "Import"
Normalize(et) == IF et = "Download" THEN "Import" ELSE et

\* event_type.lower() in [e.lower() for e in inst.enabled_events]
OptedIn(inst, et) == Lower(et) \in {Lower(e) : e \in inst.enabled_events}

ValidInstances(instances, et) ==
    LET Sel(inst) == OptedIn(inst, et) IN SelectSeq(instances, Sel)

\* variant: the zero-instance Import branch finds no path to scan
NoInstanceScanPath_None(product, p) == NoPath

\* most specific path of the zero-instance Import branch
NoInstanceScanPath(product, p) ==
    IF product = "sonarr"
    THEN (IF p.filePath # NoPath THEN p.filePath ELSE p.path)
    ELSE (IF p.filePath # NoPath THEN PathParent(p.filePath) ELSE p.path)

\* variant: the ManualScan branch scans for any content type
RouteManual_AnyType(t) ==
    LET p == t.payload
        Active(s) == s.enabled = "true"
    IN  IF p.path = NoPath \/ p.contentType = "" THEN Return(t, "error", "none")
        ELSE IF config.media_servers = <<>> THEN Return(t, "error", "none")
        ELSE IF SelectSeq(config.media_servers, Active) = <<>> THEN Return(t, "error", "none")
        ELSE BeginScan([t EXCEPT !.handler = "manual"], config.media_servers,
                       p.path, p.contentType = "series")

\* the ManualScan branch
RouteManual(t) ==
    LET p == t.payload
        Active(s) == s.enabled = "true"
    IN  IF p.path = NoPath \/ p.contentType = "" THEN Return(t, "error", "none")
        ELSE IF config.media_servers = <<>> THEN Return(t, "error", "none")
        ELSE IF SelectSeq(config.media_servers, Active) = <<>> THEN Return(t, "error", "none")
        ELSE IF p.contentType \notin {"series", "movie"} THEN Return(t, "error", "none")
        ELSE BeginScan([t EXCEPT !.handler = "manual"], config.media_servers,
                       p.path, p.contentType = "series")

\* the series / movie branch, for the instances of that product
RouteProduct(t, product, instances) ==
    LET p == t.payload
        et == Normalize(p.eventType)
        sel == ValidInstances(instances, et)
        h == HandlerFor(product, et)
        t1 == [t EXCEPT !.product = product, !.event_type = et]
        t2 == [t1 EXCEPT !.instances = sel]
    IN  IF p.eventType \notin config.webhook_events[product]
        THEN Return([t EXCEPT !.product = product], "ignored", "none")
        ELSE IF ~p.valid THEN Return(t1, "error", "none")
        ELSE IF sel = <<>>
        THEN IF et = "Import" /\ NoInstanceScanPath(product, p) # NoPath
             THEN BeginScan([t2 EXCEPT !.handler = "noinst"], config.media_servers,
                            NoInstanceScanPath(product, p), product = "sonarr")
             ELSE Return(t2, "ignored", "none")
        ELSE IF h = "none" THEN Return(t2, "ignored", "none")
        ELSE IF HandlerParams[h] # CallArgs
        THEN Return([t2 EXCEPT !.handler = h], "error", "none")
        ELSE [t2 EXCEPT !.handler = h, !.i = 1, !.pc = FirstOp([t2 EXCEPT !.handler = h])]

\* process_webhook after the sync delay, up to its first await
Route(t) ==
    IF t.payload.eventType = "ManualScan" THEN RouteManual(t)
    ELSE IF t.payload.kind = "series" THEN RouteProduct(t, "sonarr", sonarr_instances)
    ELSE IF t.payload.kind = "movie" THEN RouteProduct(t, "radarr", radarr_instances)
    ELSE Return(t, "error", "none")

(***************************************************************************)
(* Upstream calls                                                          *)
(***************************************************************************)
\* possible outcomes (TRUE: answered, FALSE: raised) of a call to a target
Outcomes(name) == IF name \in flaky THEN BOOLEAN ELSE {TRUE}

\* variant: the create request asks the instance to search at once
add_series_AutoSearch(inst) ==
    [rootFolderPath |-> inst.root_folder_path, qualityProfileId |-> inst.quality_profile_id,
     monitored |-> TRUE, searchForMissingEpisodes |-> TRUE]

\* the body add_series posts to /api/v3/series
add_series(inst) ==
    [rootFolderPath |-> inst.root_folder_path, qualityProfileId |-> inst.quality_profile_id,
     monitored |-> TRUE, searchForMissingEpisodes |-> FALSE]

\* the create request of a handler for an instance, answered (ok) or raising
Created(t, inst, ok) ==
    [Logged(t, "create", inst.name, ok) EXCEPT
        !.posted = Append(@, [instance |-> inst.name, existing_series |-> t.existing,
                              body |-> add_series(inst), at |-> Len(t.log) + 1])]

\* The segment of a handler that runs with the answer of the lookup, for
\* instance inst whose catalog holds the record iff has; okA and okB are the
\* outcomes of its first and second upstream call.  Yields the task and the
\* catalog of the instance afterwards.  The upstream rejects a create for a
\* record it has and a delete for a record it does not have.
MutateResult(t, inst, has, okA, okB) ==
    LET h == t.handler
        n == inst.name
    IN  IF h \in CreatingHandlers
        THEN IF t.existing
             THEN IF h = "handle_sonarr_import" /\ inst.search_on_sync
                  THEN [task |-> Advance(Logged(t, "search", n, okA),
                                         IF okA THEN ExistsEntry(h, n) ELSE ErrorEntry(n)),
                        has |-> has]
                  ELSE [task |-> Advance(t, ExistsEntry(h, n)), has |-> has]
             ELSE IF ~(okA /\ ~has)
                  THEN [task |-> Advance(Created(t, inst, FALSE), ErrorEntry(n)),
                        has |-> has]
                  ELSE IF inst.search_on_sync
                  THEN [task |-> Advance(Logged(Created(t, inst, TRUE), "search", n, okB),
                                         IF okB THEN CreatedEntry(h, n) ELSE ErrorEntry(n)),
                        has |-> TRUE]
                  ELSE [task |-> Advance(Created(t, inst, TRUE), CreatedEntry(h, n)),
                        has |-> TRUE]
        ELSE IF t.payload.eventType = "SeriesDelete"
             THEN IF ~t.existing
                  THEN [task |-> Advance(t, ErrorEntry(n)), has |-> has]
                  ELSE IF okA /\ has
                  THEN [task |-> Advance(Logged(t, "delete", n, TRUE),
                                         Entry(n, "success", "none")),
                        has |-> FALSE]
                  ELSE [task |-> Advance(Logged(t, "delete", n, FALSE), ErrorEntry(n)),
                        has |-> has]
             ELSE [task |-> Advance(Logged(t, "delete_file", n, okA),
                                    IF okA THEN Entry(n, "success", "none") ELSE ErrorEntry(n)),
                   has |-> has]

(***************************************************************************)
(* Actions                                                                 *)
(***************************************************************************)
\* variant: the coroutine has entered its sync delay when the handler returns
create_task_Eager(t) == Logged([t EXCEPT !.pc = "delay"], "sleep", "delay", TRUE)

\* asyncio.create_task: the coroutine is scheduled, it has not run yet
create_task(t) == t

\* variant: a payload without eventType is acknowledged like any other
Response_Accepting(p, id) ==
    [status_code |-> 200, status |-> "received", webhook_id |-> id, event_type |-> p.eventType]

\* the synchronous response for a payload (event_type of a 400 response: the
\* eventType of the rejected payload, which is empty)
Response(p, id) ==
    IF p.eventType = ""
    THEN [status_code |-> 400, status |-> "error", webhook_id |-> 0, event_type |-> ""]
    ELSE [status_code |-> 200, status |-> "received", webhook_id |-> id,
          event_type |-> p.eventType]

\* variant: no request is served while a delivery sleeps
webhook_handler_Blocking(limit, payloads) ==
    /\ Len(responses) < limit
    /\ \A d \in 1..Len(tasks) : tasks[d].pc \notin {"delay", "interval", "prescan", "settle"}
    /\ \E p \in payloads :
         LET id == Len(tasks) + 1 IN
         /\ responses' = Append(responses, Response(p, id))
         /\ tasks' = IF p.eventType = "" THEN tasks
                     ELSE Append(tasks, create_task(NewTask(id, p,
                                     parse_time_string(config.sync_delay),
                                     parse_time_string(config.sync_interval))))
    /\ UNCHANGED <<eval, config, sonarr_instances, radarr_instances, catalog, flaky>>

\* POST /webhook
webhook_handler(limit, payloads) ==
    /\ Len(responses) < limit
    /\ \E p \in payloads :
         LET id == Len(tasks) + 1 IN
         /\ responses' = Append(responses, Response(p, id))
         /\ tasks' = IF p.eventType = "" THEN tasks
                     ELSE Append(tasks, create_task(NewTask(id, p,
                                     parse_time_string(config.sync_delay),
                                     parse_time_string(config.sync_interval))))
    /\ UNCHANGED <<eval, config, sonarr_instances, radarr_instances, catalog, flaky>>

\* variant: the task starts routing without the sync delay
StartTask_NoDelay(d) ==
    /\ tasks[d].pc = "scheduled"
    /\ tasks' = [tasks EXCEPT ![d] = Route(tasks[d])]
    /\ UNCHANGED <<eval, config, sonarr_instances, radarr_instances, catalog, flaky, responses>>

\* the event loop starts the task: process_webhook up to its first await
StartTask(d) ==
    /\ tasks[d].pc = "scheduled"
    /\ LET t == tasks[d] IN
       tasks' = [tasks EXCEPT ![d] =
                    IF Positive(t.sync_delay)
                    THEN Logged([t EXCEPT !.pc = "delay"], "sleep", "delay", TRUE)
                    ELSE Route(t)]
    /\ UNCHANGED <<eval, config, sonarr_instances, radarr_instances, catalog, flaky, responses>>

\* a sleep ends: the task runs on up to its next await
Wake(d) ==
    /\ tasks[d].pc \in {"delay", "interval", "prescan", "settle"}
    /\ LET t == tasks[d] IN
       tasks' = [tasks EXCEPT ![d] =
                    CASE t.pc = "delay" -> Route(t)
                      [] t.pc = "interval" -> [t EXCEPT !.pc = FirstOp(t)]
                      [] t.pc = "prescan" -> BeginScan(t, config.media_servers, t.scanPath, TRUE)
                      [] OTHER -> ScanStart(t)]
    /\ UNCHANGED <<eval, config, sonarr_instances, radarr_instances, catalog, flaky, responses>>

\* variant: the existence check always answers "no record"
Lookup_Blind(d) ==
    /\ tasks[d].pc = "lookup"
    /\ LET t == tasks[d]
           n == t.instances[t.i].name
       IN  \E ok \in Outcomes(n) :
             tasks' = [tasks EXCEPT ![d] =
                         IF ok
                         THEN [Logged(t, "lookup", n, TRUE) EXCEPT
                                   !.pc = "mutate", !.existing = FALSE]
                         ELSE Advance(Logged(t, "lookup", n, FALSE), ErrorEntry(n))]
    /\ UNCHANGED <<eval, config, sonarr_instances, radarr_instances, catalog, flaky, responses>>

\* variant: the lookup on the next instance is issued together with the
\* lookup on the current one
Lookup_Gather(d) ==
    /\ tasks[d].pc = "lookup"
    /\ LET t0 == tasks[d]
           n == t0.instances[t0.i].name
           t == IF t0.i < Len(t0.instances)
                THEN Logged(t0, "lookup", t0.instances[t0.i + 1].name, TRUE)
                ELSE t0
       IN  \E ok \in Outcomes(n) :
             tasks' = [tasks EXCEPT ![d] =
                         IF ok
                         THEN [Logged(t, "lookup", n, TRUE) EXCEPT
                                   !.pc = "mutate", !.existing = catalog[n]]
                         ELSE Advance(Logged(t, "lookup", n, FALSE), ErrorEntry(n))]
    /\ UNCHANGED <<eval, config, sonarr_instances, radarr_instances, catalog, flaky, responses>>

\* SonarrInstance.get_series_by_tvdb_id on the current instance
Lookup(d) ==
    /\ tasks[d].pc = "lookup"
    /\ LET t == tasks[d]
           n == t.instances[t.i].name
       IN  \E ok \in Outcomes(n) :
             tasks' = [tasks EXCEPT ![d] =
                         IF ok
                         THEN [Logged(t, "lookup", n, TRUE) EXCEPT
                                   !.pc = "mutate", !.existing = catalog[n]]
                         ELSE Advance(Logged(t, "lookup", n, FALSE), ErrorEntry(n))]
    /\ UNCHANGED <<eval, config, sonarr_instances, radarr_instances, catalog, flaky, responses>>

\* the handler resumes with the lookup's answer and creates / searches / deletes
Mutate(d) ==
    /\ tasks[d].pc = "mutate"
    /\ LET t == tasks[d]
           inst == t.instances[t.i]
       IN  \E okA \in Outcomes(inst.name), okB \in Outcomes(inst.name) :
             LET r == MutateResult(t, inst, catalog[inst.name], okA, okB) IN
             /\ tasks' = [tasks EXCEPT ![d] = r.task]
             /\ catalog' = [catalog EXCEPT ![inst.name] = r.has]
    /\ UNCHANGED <<eval, config, sonarr_instances, radarr_instances, flaky, responses>>

\* the path argument scan_path passes to the adapter of a server
AdapterPath(t, srv) == t.scanPath

\* variant: a failed adapter call is attempted a second time
Scan_Retry(d) ==
    /\ tasks[d].pc = "scan"
    /\ LET t == tasks[d]
           srv == t.active[t.j]
           failedBefore == \E l \in 1..Len(t.log) : t.log[l] = Call("scan", srv.name, FALSE)
       IN  \E ok \in Outcomes(srv.name) :
             LET t1 == [Logged(t, "scan", srv.name, ok) EXCEPT
                           !.scanResults = Append(@, ScanEntry(srv.name, srv.type,
                                                    IF ok THEN "success" ELSE "error")),
                           !.sent = Append(@, [server |-> srv.name,
                                               path |-> AdapterPath(t, srv)])]
             IN  tasks' = [tasks EXCEPT ![d] =
                             IF ~ok /\ ~failedBefore THEN Logged(t, "scan", srv.name, FALSE)
                             ELSE IF t.j < Len(t.active) THEN [t1 EXCEPT !.j = @ + 1]
                             ELSE FinishScan(t1)]
    /\ UNCHANGED <<eval, config, sonarr_instances, radarr_instances, catalog, flaky, responses>>

\* one iteration of the server loop of scan_path: the adapter call on server j
Scan(d) ==
    /\ tasks[d].pc = "scan"
    /\ LET t == tasks[d]
           srv == t.active[t.j]
       IN  \E ok \in Outcomes(srv.name) :
             LET t1 == [Logged(t, "scan", srv.name, ok) EXCEPT
                           !.scanResults = Append(@, ScanEntry(srv.name, srv.type,
                                                    IF ok THEN "success" ELSE "error")),
                           !.sent = Append(@, [server |-> srv.name,
                                               path |-> AdapterPath(t, srv)])]
             IN  tasks' = [tasks EXCEPT ![d] =
                             IF t.j < Len(t.active) THEN [t1 EXCEPT !.j = @ + 1]
                             ELSE FinishScan(t1)]
    /\ UNCHANGED <<eval, config, sonarr_instances, radarr_instances, catalog, flaky, responses>>

Started == \E d \in 1..Len(tasks) : StartTask(d)
Woken == \E d \in 1..Len(tasks) : Wake(d)
LookedUp == \E d \in 1..Len(tasks) : Lookup(d)
Mutated == \E d \in 1..Len(tasks) : Mutate(d)
Scanned == \E d \in 1..Len(tasks) : Scan(d)

Step == Started \/ Woken \/ LookedUp \/ Mutated \/ Scanned

(***************************************************************************)
(* Initial configurations.  A configuration is named by one profile per    *)
(* dimension; the initial states range over the configurations that differ *)
(* from the base configuration in at most MaxDeviations dimensions.        *)
(***************************************************************************)
MaxDeviations == 2

WebhookEvents(a) ==
    CASE a = "default" -> [sonarr |-> SonarrDefaultEvents,
                           radarr |-> RadarrDefaultEvents \cup {"MovieAdded"}]
      [] a = "noDownload" -> [sonarr |-> SonarrDefaultEvents \ {"Download"},
                              radarr |-> RadarrDefaultEvents \ {"Download"}]
      [] a = "noImport" -> [sonarr |-> SonarrDefaultEvents \ {"Import"},
                            radarr |-> RadarrDefaultEvents \ {"Import"}]

MediaServers(m) ==
    CASE m = "two" -> <<Srv("plex", "plex", "true"), Srv("jelly", "jellyfin", "true")>>
      [] m = "none" -> <<>>
      [] m = "firstOff" -> <<Srv("plex", "plex", "false"), Srv("jelly", "jellyfin", "true"),
                          Srv("emby", "emby", "true")>>
      [] m = "noKey" -> <<Srv("plex", "plex", "absent")>>
      [] m = "allOff" -> <<Srv("plex", "plex", "false"), Srv("jelly", "jellyfin", "false")>>
      [] m = "unsupported" -> <<Srv("kodi", "kodi", "true"), Srv("jelly", "jellyfin", "true")>>
      [] m = "onlyUnsupported" -> <<Srv("kodi", "kodi", "true")>>

SonarrInstances(x) ==
    CASE x = "both" -> <<Inst("s1", SonarrAll, TRUE), Inst("s2", SonarrAll, FALSE)>>
      [] x = "bothSwapped" -> <<Inst("s1", SonarrAll, FALSE), Inst("s2", SonarrAll, TRUE)>>
      [] x = "lowercase" -> <<Inst("s1", {"import", "grab", "seriesdelete"}, FALSE),
                              Inst("s2", {}, FALSE)>>
      [] x = "download" -> <<Inst("s1", {"Download"}, FALSE), Inst("s2", SonarrAll, FALSE)>>
      [] x = "optedOut" -> <<Inst("s1", {}, FALSE), Inst("s2", {}, TRUE)>>
      [] x = "empty" -> <<>>

RadarrInstances(x) ==
    CASE x = "one" -> <<Inst("r1", RadarrAll, FALSE)>>
      [] x = "optedOut" -> <<Inst("r1", {}, FALSE)>>

AllowProfiles == {"default", "noDownload", "noImport"}
ServerProfiles == {"two", "none", "firstOff", "noKey", "allOff", "unsupported", "onlyUnsupported"}
SonarrProfiles == {"both", "bothSwapped", "lowercase", "download", "optedOut", "empty"}
RadarrProfiles == {"one", "optedOut"}

Deviations(a, m, x, r, dl, iv) ==
    (IF a = "default" THEN 0 ELSE 1) + (IF m = "two" THEN 0 ELSE 1)
    + (IF x = "both" THEN 0 ELSE 1) + (IF r = "one" THEN 0 ELSE 1)
    + (IF dl = <<"0">> /\ iv = <<"0">> THEN 0 ELSE 1)

\* the state after startup (lifespan) with a loaded configuration
InitConfig(a, m, x, r, dl, iv) ==
    /\ config = [webhook_events |-> WebhookEvents(a), media_servers |-> MediaServers(m),
                 sync_delay |-> dl, sync_interval |-> iv]
    /\ sonarr_instances = SonarrInstances(x)
    /\ radarr_instances = RadarrInstances(r)
    /\ tasks = <<>>
    /\ responses = <<>>

Init ==
    /\ \E a \in AllowProfiles, m \in ServerProfiles, x \in SonarrProfiles,
          r \in RadarrProfiles, dl \in TimeStrings, iv \in TimeStrings :
          /\ Deviations(a, m, x, r, dl, iv) <= MaxDeviations
          /\ InitConfig(a, m, x, r, dl, iv)
    /\ catalog \in [InstanceNames -> BOOLEAN]
    /\ catalog["r1"] = FALSE
    /\ flaky = InstanceNames \cup ServerNames
    /\ eval = NoEval

\* one webhook, from every configuration and upstream state
Next == webhook_handler(1, Payloads) \/ Step

Spec == Init /\ [][Next]_vars

\* the event loop resumes every task whose await has completed, and every
\* outbound call and sleep completes
SpecLive == Init /\ [][Next]_vars /\ WF_vars(Step)

(***************************************************************************)
(* Concurrent deliveries: up to MaxDeliveries webhooks for the same series *)
(* are received at any time, so that their background tasks interleave at  *)
(* the awaits.  The upstream calls do not fail here.                       *)
(***************************************************************************)
RedeliveryPayloads ==
    {Payload(e, "series", TRUE, SeriesPath, NoPath, "") : e \in {"Grab", "Import", "SeriesAdd"}}

InitConc ==
    /\ \E x \in {"both", "bothSwapped"}, dl \in TimeStrings, iv \in TimeStrings :
          InitConfig("default", "noKey", x, "one", dl, iv)
    /\ catalog \in [InstanceNames -> BOOLEAN]
    /\ catalog["r1"] = FALSE
    /\ flaky = {}
    /\ eval = NoEval

NextConc == webhook_handler(MaxDeliveries, RedeliveryPayloads) \/ Step

SpecConc == InitConc /\ [][NextConc]_vars

(***************************************************************************)
(* Sequential re-delivery: the same Import webhook is delivered again only *)
(* after every earlier delivery has finished.  No instance has a record at *)
(* the start, and calls to the instances and the server may fail.          *)
(***************************************************************************)
SeqPayloads == {Payload("Import", "series", TRUE, SeriesPath, NoPath, "")}

InitSeq ==
    /\ \E m \in {"noKey", "none"}, x \in {"both", "bothSwapped"},
          dl \in TimeStrings, iv \in TimeStrings :
          InitConfig("default", m, x, "one", dl, iv)
    /\ catalog = [n \in InstanceNames |-> FALSE]
    /\ flaky = {"s1", "s2", "plex"}
    /\ eval = NoEval

Redeliver ==
    /\ \A d \in 1..Len(tasks) : tasks[d].pc = "done"
    /\ webhook_handler(MaxDeliveries, SeqPayloads)

NextSeq == Redeliver \/ Step

SpecSeq == InitSeq /\ [][NextSeq]_vars

(***************************************************************************)
(* Path rewriting: utils.rewrite_path.  Strings are sequences of symbols,  *)
(* each symbol a piece of text; a rule is [from_path, to_path]; a missing  *)
(* rule list is the empty list.                                            *)
(***************************************************************************)
\* longest rule list drawn for a call of rewrite_path
MaxRules == 2

Rule(f, t) == [from_path |-> f, to_path |-> t]

\* str.startswith
StartsWith(s, prefix) == Len(prefix) <= Len(s) /\ SubSeq(s, 1, Len(prefix)) = prefix

\* the positions at which sub occurs in s
Occurrences(s, sub) ==
    {k \in 1..(Len(s) - Len(sub) + 1) : SubSeq(s, k, k + Len(sub) - 1) = sub}

\* variant: the new text is inserted after the old text, which stays
ReplaceFirst_Insert(s, old, new) ==
    IF Occurrences(s, old) = {} THEN s
    ELSE LET k == CHOOSE k \in Occurrences(s, old) : \A m \in Occurrences(s, old) : k <= m
         IN  SubSeq(s, 1, k + Len(old) - 1) \o new \o SubSeq(s, k + Len(old), Len(s))

\* str.replace(old, new, 1)
ReplaceFirst(s, old, new) ==
    IF Occurrences(s, old) = {} THEN s
    ELSE LET k == CHOOSE k \in Occurrences(s, old) : \A m \in Occurrences(s, old) : k <= m
         IN  SubSeq(s, 1, k - 1) \o new \o SubSeq(s, k + Len(old), Len(s))

\* the rules the loop of rewrite_path returns on
Matching(path, rules) ==
    {k \in 1..Len(rules) :
        /\ rules[k].from_path # <<>>
        /\ rules[k].to_path # <<>>
        /\ StartsWith(path, rules[k].from_path)}

\* variant: the rule with the longest matching from_path is applied
rewrite_path_Longest(path, rules) ==
    IF Matching(path, rules) = {} THEN path
    ELSE LET k == CHOOSE k \in Matching(path, rules) :
                     \A m \in Matching(path, rules) :
                         \/ Len(rules[m].from_path) < Len(rules[k].from_path)
                         \/ (Len(rules[m].from_path) = Len(rules[k].from_path) /\ k <= m)
         IN  ReplaceFirst(path, rules[k].from_path, rules[k].to_path)

rewrite_path(path, rules) ==
    IF Matching(path, rules) = {} THEN path
    ELSE LET k == CHOOSE k \in Matching(path, rules) : \A m \in Matching(path, rules) : k <= m
         IN  ReplaceFirst(path, rules[k].from_path, rules[k].to_path)

\* the from_path and to_path texts of the rules drawn
RuleStrings ==
    {<<>>, <<"/", "a">>, <<"/", "a", "/", "b">>, <<"/", "x">>, <<"/", "x", "/", "b">>,
     <<"/", "y">>}

\* the paths drawn
RewritePaths ==
    {<<>>, <<"/", "a">>, <<"/", "a", "/", "b", "/", "c">>, <<"/", "a", "b">>,
     <<"/", "x", "/", "b", "/", "c">>, <<"/", "c", "/", "a", "/", "b">>, <<"/", "y", "/", "c">>}

Rules == {Rule(f, t) : f \in RuleStrings, t \in RuleStrings}

RuleLists == UNION {[1..n -> Rules] : n \in 0..MaxRules}

\* a call rewrite_path(path, rules), followed by a second call on its result
InitRewrite ==
    /\ InitConfig("default", "two", "both", "one", <<"0">>, <<"0">>)
    /\ catalog = [n \in InstanceNames |-> FALSE]
    /\ flaky = {}
    /\ \E p \in RewritePaths, rules \in RuleLists :
          eval = [fn |-> "rewrite_path", path |-> p, rules |-> rules, calls |-> 0,
                  once |-> <<>>, twice |-> <<>>]

RewriteOnce ==
    /\ eval.fn = "rewrite_path" /\ eval.calls = 0
    /\ eval' = [eval EXCEPT !.calls = 1, !.once = rewrite_path(eval.path, eval.rules)]
    /\ UNCHANGED <<config, sonarr_instances, radarr_instances, catalog, flaky, tasks, responses>>

RewriteAgain ==
    /\ eval.fn = "rewrite_path" /\ eval.calls = 1
    /\ eval' = [eval EXCEPT !.calls = 2, !.twice = rewrite_path(eval.once, eval.rules)]
    /\ UNCHANGED <<config, sonarr_instances, radarr_instances, catalog, flaky, tasks, responses>>

NextRewrite == RewriteOnce \/ RewriteAgain

SpecRewrite == InitRewrite /\ [][NextRewrite]_vars

(***************************************************************************)
(* The Plex adapter: _scan_plex(server, path, library_type).  Paths are    *)
(* strings, written as sequences of symbols: "/data/movies4k" is           *)
(* <<"/", "data", "/", "movies", "4k">>, so that "/data/movies" is a       *)
(* string prefix of it.  A section is [key, type, Location].               *)
(***************************************************************************)
MaxSections == 2

\* Path(p).as_posix() on an absolute path with single separators: a
\* trailing separator is dropped
as_posix(p) ==
    IF Len(p) > 1 /\ p[Len(p)] = "/" THEN SubSeq(p, 1, Len(p) - 1) ELSE p

\* the section types collected for a library type
WantedType(library_type) == IF library_type = "Movies" THEN "movie" ELSE "show"

\* first pass: every (section, location) pair of the right type, in the
\* order of the server's answer
RECURSIVE MatchingSections(_, _)
MatchingSections(sections, library_type) ==
    IF sections = <<>> THEN <<>>
    ELSE LET sec == Head(sections)
             own == IF sec.type = WantedType(library_type)
                    THEN [k \in 1..Len(sec.Location) |->
                             [key |-> sec.key, location_path |-> sec.Location[k]]]
                    ELSE <<>>
         IN  own \o MatchingSections(Tail(sections), library_type)

\* the test of the second pass on one candidate: startswith, else substring
LocationMatches(path, location_path) ==
    \/ StartsWith(as_posix(path), as_posix(location_path))
    \/ Occurrences(as_posix(path), as_posix(location_path)) # {}

\* variant: when no location matches, the first section of the answer is taken
SelectSection_Fallback(sections, path, library_type) ==
    LET cands == MatchingSections(sections, library_type)
        hits == {k \in 1..Len(cands) : LocationMatches(path, cands[k].location_path)}
    IN  IF sections = <<>> THEN [raised |-> TRUE, section_id |-> 0]
        ELSE IF hits = {} THEN [raised |-> FALSE, section_id |-> sections[1].key]
        ELSE LET k == CHOOSE k \in hits : \A h \in hits : k <= h
             IN  [raised |-> FALSE, section_id |-> cands[k].key]

\* section selection: [raised, section_id], section_id 0 being None
SelectSection(sections, path, library_type) ==
    LET cands == MatchingSections(sections, library_type)
        hits == {k \in 1..Len(cands) : LocationMatches(path, cands[k].location_path)}
    IN  IF cands = <<>> \/ hits = {}
        THEN [raised |-> TRUE, section_id |-> 0]
        ELSE LET k == CHOOSE k \in hits : \A h \in hits : k <= h
             IN  [raised |-> FALSE, section_id |-> cands[k].key]

MoviesLoc == <<"/", "data", "/", "movies">>
Movies4kLoc == <<"/", "data", "/", "movies", "4k">>
TvLoc == <<"/", "data", "/", "tv">>

\* the root locations a section can have
Locations == {MoviesLoc, Movies4kLoc, TvLoc, <<"/", "movies">>, MoviesLoc \o <<"/">>}

LocationLists == {<<l>> : l \in Locations} \cup {<<TvLoc, l>> : l \in Locations \ {TvLoc}}

\* the paths the dispatcher hands to the adapter
PlexPaths ==
    {Movies4kLoc \o <<"/", "Foo">>, MoviesLoc \o <<"/", "Foo">>, TvLoc \o <<"/", "Show">>}

\* the answers of GET library/sections: up to MaxSections sections, keyed
\* by their position
PlexSections ==
    UNION {{[k \in 1..n |-> [key |-> k, type |-> ty[k], Location |-> loc[k]]] :
                ty \in [1..n -> {"movie", "show"}], loc \in [1..n -> LocationLists]} :
           n \in 0..MaxSections}

InitPlex ==
    /\ InitConfig("default", "two", "both", "one", <<"0">>, <<"0">>)
    /\ catalog = [n \in InstanceNames |-> FALSE]
    /\ flaky = {}
    /\ \E secs \in PlexSections, p \in PlexPaths, lt \in {"Movies", "Series"} :
          eval = [fn |-> "_scan_plex", sections |-> secs, path |-> p, library_type |-> lt,
                  pc |-> "sections", section_id |-> 0, raised |-> FALSE,
                  error |-> "none", refreshed |-> FALSE, entry |-> "none"]

\* the ValueError _scan_plex raises when it selects no section
NoSectionError(sections, library_type) ==
    IF MatchingSections(sections, library_type) = <<>>
    THEN "No libraries found in Plex"
    ELSE "No matching library section found"

\* scan_path around the adapter call: a returned value is recorded as a
\* success entry, an exception as an error entry
Dispatched(e) ==
    [e EXCEPT !.entry = IF e.pc # "done" THEN "none"
                        ELSE IF e.raised THEN "error" ELSE "success"]

\* the answer of GET library/sections arrives: a status other than 200
\* raises, otherwise the section is selected and the refresh request sent
GetSections ==
    /\ eval.fn = "_scan_plex" /\ eval.pc = "sections"
    /\ \E ok \in BOOLEAN :
          eval' = IF ~ok
                  THEN Dispatched([eval EXCEPT !.pc = "done", !.raised = TRUE,
                                               !.error = "Failed to get Plex sections"])
                  ELSE LET sel == SelectSection(eval.sections, eval.path, eval.library_type)
                       IN  Dispatched(
                             [eval EXCEPT !.pc = IF sel.raised THEN "done" ELSE "refresh",
                                          !.raised = sel.raised,
                                          !.section_id = sel.section_id,
                                          !.refreshed = ~sel.raised,
                                          !.error = IF sel.raised
                                                    THEN NoSectionError(eval.sections,
                                                                        eval.library_type)
                                                    ELSE "none"])
    /\ UNCHANGED <<config, sonarr_instances, radarr_instances, catalog, flaky, tasks, responses>>

\* the answer of GET library/sections/{section_id}/refresh arrives
Refresh ==
    /\ eval.fn = "_scan_plex" /\ eval.pc = "refresh"
    /\ \E ok \in BOOLEAN :
          eval' = Dispatched([eval EXCEPT !.pc = "done", !.raised = ~ok,
                                          !.error = IF ok THEN "none" ELSE "Plex scan failed"])
    /\ UNCHANGED <<config, sonarr_instances, radarr_instances, catalog, flaky, tasks, responses>>

NextPlex == GetSections \/ Refresh

SpecPlex == InitPlex /\ [][NextPlex]_vars

(***************************************************************************)
(* Dashboard edits while a delivery is in flight.  get_config() returns    *)
(* the global CONFIG dict itself, which the dashboard handlers change in   *)
(* place, and process_webhook reads the global instance lists after its    *)
(* sync delay: an edit is read by every later segment of a delivery.  The  *)
(* frame of the dashboard counts the edits and remembers, for each         *)
(* delivery suspended in a sleep when an edit is made, the configuration   *)
(* just before that edit.                                                  *)
(***************************************************************************)
MaxChanges == 1

\* the deliveries suspended in their sync delay or a sync interval
Suspended == {d \in 1..Len(tasks) : tasks[d].pc \in {"delay", "interval", "prescan"}}

\* a dashboard handler stores a configuration and reloads the instance lists
Saved(servers, sonarr, radarr) ==
    /\ eval.fn = "dashboard"
    /\ eval.changes < MaxChanges
    /\ config' = [config EXCEPT !.media_servers = servers]
    /\ sonarr_instances' = sonarr
    /\ radarr_instances' = radarr
    /\ eval' = [eval EXCEPT
                  !.changes = @ + 1,
                  !.seen = @ \cup {[d |-> d, media_servers |-> config.media_servers,
                                    sonarr_instances |-> sonarr_instances,
                                    radarr_instances |-> radarr_instances] :
                                   d \in {d \in Suspended : \A o \in eval.seen : o.d # d}}]
    /\ UNCHANGED <<catalog, flaky, tasks, responses>>

\* GET /instances/delete/{name}/{type}
delete_instance(name, type) ==
    LET Keep(inst) == inst.name # name
    IN  Saved(config.media_servers,
              IF type = "sonarr" THEN SelectSeq(sonarr_instances, Keep) ELSE sonarr_instances,
              IF type = "radarr" THEN SelectSeq(radarr_instances, Keep) ELSE radarr_instances)

\* POST /media-servers/add: refused when the name is taken
add_media_server(name, type) ==
    /\ \A k \in 1..Len(config.media_servers) : config.media_servers[k].name # name
    /\ Saved(Append(config.media_servers, Srv(name, type, "true")),
             sonarr_instances, radarr_instances)

\* GET /media-servers/delete/{name}
delete_media_server(name) ==
    LET Keep(srv) == srv.name # name
    IN  Saved(SelectSeq(config.media_servers, Keep), sonarr_instances, radarr_instances)

DashPayloads ==
    {Payload(e, "series", TRUE, SeriesPath, NoPath, "") : e \in {"Grab", "Import"}}

InitDash ==
    /\ \E dl \in TimeStrings, iv \in TimeStrings :
          InitConfig("default", "two", "both", "one", dl, iv)
    /\ catalog \in [InstanceNames -> BOOLEAN]
    /\ catalog["r1"] = FALSE
    /\ flaky = {}
    /\ eval = [fn |-> "dashboard", changes |-> 0, seen |-> {}]

InstanceDeleted ==
    \E name \in InstanceNames, type \in {"sonarr", "radarr"} : delete_instance(name, type)

ServerAdded == add_media_server("emby", "emby")

ServerDeleted == \E name \in ServerNames : delete_media_server(name)

NextDash ==
    webhook_handler(1, DashPayloads) \/ Step \/ InstanceDeleted \/ ServerAdded \/ ServerDeleted

SpecDash == InitDash /\ [][NextDash]_vars

(***************************************************************************)
(* Time strings: utils.parse_time_string on every string of up to          *)
(* MaxTimeLen characters of a small alphabet ("LF" is the newline).        *)
(***************************************************************************)
MaxTimeLen == 3

TimeChars == {"0", "2", "5", ".", "m", "s", "x", "²", "LF"}

TimeInputs == UNION {[1..n -> TimeChars] : n \in 0..MaxTimeLen}

InitTime ==
    /\ InitConfig("default", "two", "both", "one", <<"0">>, <<"0">>)
    /\ catalog = [n \in InstanceNames |-> FALSE]
    /\ flaky = {}
    /\ \E s \in TimeInputs :
          eval = [fn |-> "parse_time_string", time_str |-> s, calls |-> 0, ret |-> <<0, 1>>]

ParseTime ==
    /\ eval.fn = "parse_time_string" /\ eval.calls = 0
    /\ eval' = [eval EXCEPT !.calls = 1, !.ret = parse_time_string(eval.time_str)]
    /\ UNCHANGED <<config, sonarr_instances, radarr_instances, catalog, flaky, tasks, responses>>

NextTime == ParseTime

SpecTime == InitTime /\ [][NextTime]_vars

(***************************************************************************)
(* Properties                                                              *)
(***************************************************************************)
Deliveries == 1..Len(tasks)

\* the calls of a delivery's trace with the given operation and target
CallsTo(t, op, n) == {l \in 1..Len(t.log) : t.log[l].op = op /\ t.log[l].target = n}

\* some outbound call of the delivery to target n raised
Raised(t, n) == \E l \in 1..Len(t.log) : t.log[l].target = n /\ ~t.log[l].ok

\* C1: a finished Grab / Import / SeriesAdd delivery with N selected
\* instances returns exactly N per-instance entries, entry k naming instance
\* k; an instance has an error entry exactly when one of its calls raised,
\* and every instance, also one after a raising instance, was looked up.
C1_FailureIsolation ==
    \A d \in Deliveries :
        LET t == tasks[d] IN
        (t.handler \in CreatingHandlers /\ t.pc = "done") =>
            /\ t.ret.key = ResultKey(t.handler)
            /\ Len(t.ret.perInstance) = Len(t.instances)
            /\ \A k \in 1..Len(t.instances) :
                  LET n == t.instances[k].name IN
                  /\ t.ret.perInstance[k].instance = n
                  /\ (t.ret.perInstance[k].status = "error") <=> Raised(t, n)
                  /\ CallsTo(t, "lookup", n) # {}

\* the configured servers of a supported type that are not disabled
EnabledSupported ==
    LET Want(s) == s.type \in {"plex", "jellyfin", "emby"} /\ s.enabled \in {"true", "absent"}
    IN  SelectSeq(config.media_servers, Want)

\* C2: a scan with k >= 1 enabled servers of a supported type sends requests
\* to these servers only and, once finished, has exactly k results in
\* configuration order; a server has an error result exactly when its scan
\* raised, and every enabled server, also one after a raising server, was
\* called exactly once.
C2_ScanFanOut ==
    \A d \in Deliveries :
        LET t == tasks[d]
            want == EnabledSupported
        IN  (t.scanned /\ Len(want) >= 1) =>
            /\ \A l \in 1..Len(t.log) :
                  t.log[l].op = "scan" => \E k \in 1..Len(want) : want[k].name = t.log[l].target
            /\ t.pc = "done" =>
                  /\ Len(t.scanResults) = Len(want)
                  /\ t.ret.scanResults = t.scanResults
                  /\ \A k \in 1..Len(want) :
                        /\ t.scanResults[k].server = want[k].name
                        /\ (t.scanResults[k].status = "error") <=> Raised(t, want[k].name)
                        /\ Cardinality(CallsTo(t, "scan", want[k].name)) = 1

\* a finished scan with a disabled first server, a second server whose scan
\* raised and a third server that was scanned after it
C2_Witness ==
    \E d \in Deliveries :
        LET t == tasks[d] IN
        /\ t.scanned /\ t.pc = "done"
        /\ Len(config.media_servers) = 3
        /\ config.media_servers[1].enabled = "false"
        /\ Len(t.scanResults) = 2
        /\ t.scanResults[1].status = "error"
        /\ t.scanResults[2].status = "success"

\* the instances of the product a payload belongs to
InstancesOf(p) == IF p.kind = "series" THEN sonarr_instances ELSE radarr_instances

ProductOf(p) == IF p.kind = "series" THEN "sonarr" ELSE "radarr"

\* the payload reaches the instance selection of its product's branch
Selects(p) ==
    /\ p.eventType # "ManualScan"
    /\ p.kind \in {"series", "movie"}
    /\ p.eventType \in config.webhook_events[ProductOf(p)]
    /\ p.valid

\* the instances that opt in to an event type, compared without case
Selected(p, et) ==
    LET Opted(inst) == \E e \in inst.enabled_events : Lower(e) = Lower(et)
    IN  SelectSeq(InstancesOf(p), Opted)

MovieEvents == {"Grab", "Import", "MovieDelete", "MovieFileDelete", "MovieAdded"}

\* C5: a finished movie-manager delivery (Grab, Import, MovieDelete,
\* MovieFileDelete, MovieAdded) with N >= 1 selected instances returns
\* exactly N per-instance results, entry k naming instance k, and every
\* selected instance received a request.
C5_MovieFanOut ==
    \A d \in Deliveries :
        LET t == tasks[d]
            p == t.payload
            sel == Selected(p, p.eventType)
        IN  (t.pc = "done" /\ p.kind = "movie" /\ p.eventType \in MovieEvents
               /\ Selects(p) /\ Len(sel) >= 1) =>
            /\ t.ret.status = "ok"
            /\ Len(t.ret.perInstance) = Len(sel)
            /\ \A k \in 1..Len(sel) :
                  /\ t.ret.perInstance[k].instance = sel[k].name
                  /\ \E l \in 1..Len(t.log) : t.log[l].target = sel[k].name

\* what routing decides for a task: accept or ignore, the selected
\* instances, the handler, and the scan it starts
RouteView(t) == <<t.ret.status, t.instances, t.handler, t.pc, t.scanned, t.scanPath, t.active>>

Routed(p) == RouteView(Route(NewTask(1, p, <<0, 1>>, <<0, 1>>)))

AsImport(p) == [p EXCEPT !.eventType = "Import"]

\* C6: in every configuration, every Download payload is routed exactly as
\* the same payload with eventType Import: same accept-or-ignore decision,
\* same selected instances, same handler, same scan.
C6_DownloadAsImport ==
    \A p \in Payloads : p.eventType = "Download" => Routed(p) = Routed(AsImport(p))

\* C7: a finished Import / Download delivery that selected no instance,
\* with a non-empty path in the payload and at least one enabled media
\* server, invoked the scan dispatcher and returns status ok with a
\* non-empty list of scan results; every enabled server of a supported type
\* received a scan request.
C7_ScanWithoutInstances ==
    \A d \in Deliveries :
        LET t == tasks[d]
            p == t.payload
        IN  (t.pc = "done" /\ p.eventType \in {"Import", "Download"} /\ Selects(p)
               /\ Selected(p, "Import") = <<>>
               /\ (p.path # NoPath \/ p.filePath # NoPath)
               /\ \E k \in 1..Len(config.media_servers) :
                     config.media_servers[k].enabled # "false") =>
            /\ t.scanned
            /\ t.ret.status = "ok"
            /\ t.ret.scanResults # <<>>
            /\ \A k \in 1..Len(EnabledSupported) :
                  CallsTo(t, "scan", EnabledSupported[k].name) # {}

\* a finished zero-instance Import whose scan reached a server
C7_Witness ==
    \E d \in Deliveries :
        LET t == tasks[d] IN
        /\ t.pc = "done" /\ t.payload.eventType = "Import" /\ Selects(t.payload)
        /\ Selected(t.payload, "Import") = <<>>
        /\ t.payload.filePath # NoPath
        /\ \E k \in 1..Len(t.ret.scanResults) : t.ret.scanResults[k].status = "success"

\* instance n had no record when the delivery looked it up (one delivery:
\* only its own successful delete removes a record)
HadNoRecord(t, n) ==
    /\ ~catalog[n]
    /\ \A l \in CallsTo(t, "delete", n) : ~t.log[l].ok
    /\ \E l \in CallsTo(t, "lookup", n) : t.log[l].ok

\* a finished SeriesDelete delivery: every selected instance was looked up
\* and has its entry in the handler's deletions list; an instance without a
\* record has an error entry and received no delete request
NotFoundIsolated(t) ==
    /\ Len(t.entries) = Len(t.instances)
    /\ \A k \in 1..Len(t.instances) :
          LET n == t.instances[k].name IN
          /\ CallsTo(t, "lookup", n) # {}
          /\ t.entries[k].instance = n
          /\ HadNoRecord(t, n) =>
                (t.entries[k].status = "error" /\ CallsTo(t, "delete", n) = {})

SeriesDeleteDone(t) ==
    /\ t.pc = "done" /\ t.payload.eventType = "SeriesDelete"
    /\ Selects(t.payload) /\ Selected(t.payload, "SeriesDelete") # <<>>

\* C8 as stated: in every finished SeriesDelete delivery an instance without
\* a record has an error entry and no delete request, the remaining
\* instances run, and the scan dispatcher was invoked.
C8_NotFoundOnDeleteScans ==
    \A d \in Deliveries :
        SeriesDeleteDone(tasks[d]) => (NotFoundIsolated(tasks[d]) /\ tasks[d].scanned)

\* C8: in every finished SeriesDelete delivery an instance without a record
\* has an error entry (never skipped or success) in the handler's deletions
\* list and no delete request, the remaining instances run, and the scan
\* dispatcher was invoked if the payload carries a series path.
C8_NotFoundOnDelete ==
    \A d \in Deliveries :
        SeriesDeleteDone(tasks[d]) =>
            /\ NotFoundIsolated(tasks[d])
            /\ tasks[d].payload.path # NoPath => tasks[d].scanned

\* a finished SeriesDelete: the first instance had no record, the second
\* one was deleted after it, and a server was scanned
C8_Witness ==
    \E d \in Deliveries :
        LET t == tasks[d] IN
        /\ SeriesDeleteDone(t) /\ Len(t.instances) = 2
        /\ HadNoRecord(t, t.instances[1].name)
        /\ t.entries[1].status = "error"
        /\ \E l \in CallsTo(t, "delete", t.instances[2].name) : t.log[l].ok
        /\ \E l \in 1..Len(t.log) : t.log[l].op = "scan"

\* C9: a finished Rename delivery with at least one selected instance sent
\* a refresh to every selected instance that has the item, returns a skipped
\* entry for every selected instance that does not, and sent no create.
C9_RenameRefreshes ==
    \A d \in Deliveries :
        LET t == tasks[d]
            p == t.payload
            sel == Selected(p, "Rename")
        IN  (t.pc = "done" /\ p.eventType = "Rename" /\ p.kind = "series"
               /\ Selects(p) /\ sel # <<>>) =>
            /\ \A k \in 1..Len(sel) :
                  IF catalog[sel[k].name]
                  THEN CallsTo(t, "refresh", sel[k].name) # {}
                  ELSE /\ Len(t.ret.perInstance) >= k
                       /\ t.ret.perInstance[k].instance = sel[k].name
                       /\ t.ret.perInstance[k].status = "skipped"
            /\ \A l \in 1..Len(t.log) : t.log[l].op # "create"

Creates(d, n) == {l \in CallsTo(tasks[d], "create", n) : tasks[d].log[l].ok}

\* no delivery before d created a record on n (the catalogs start empty and
\* only a successful create adds a record)
NoRecordBefore(d, n) == \A e \in 1..(d - 1) : Creates(e, n) = {}

\* the entries of two consecutive deliveries for the k-th instance say
\* created, then already exists, and one create request was sent in total
CreatedThenExists(d, k) ==
    LET n == tasks[d].instances[k].name IN
    /\ tasks[d].entries[k] = Entry(n, "none", "newSeriesId")
    /\ tasks[d + 1].entries[k] = Entry(n, "none", "existingSeriesId")
    /\ Cardinality(CallsTo(tasks[d], "create", n)) = 1
    /\ CallsTo(tasks[d + 1], "create", n) = {}

\* two finished Import deliveries run one after the other
ImportTwice(d) ==
    /\ d + 1 \in Deliveries
    /\ tasks[d].pc = "done" /\ tasks[d + 1].pc = "done"
    /\ tasks[d].handler = "handle_sonarr_import"
    /\ tasks[d + 1].handler = "handle_sonarr_import"
    /\ tasks[d].payload = tasks[d + 1].payload

ReadRaised(t, n) ==
    \E l \in CallsTo(t, "lookup", n) \cup CallsTo(t, "search", n) : ~t.log[l].ok

C4_NoDuplicateCreate ==
    \A d \in Deliveries, e \in Deliveries :
        (d < e /\ tasks[d].payload = tasks[e].payload) =>
            \A n \in InstanceNames :
                Cardinality(CallsTo(tasks[d], "create", n))
                    + Cardinality(CallsTo(tasks[e], "create", n)) <= 1

\* C11: a payload that is not a ManualScan and has neither a series nor a
\* movie key is rejected synchronously: no background task exists for it.
C11_NoDiscriminantRejected ==
    \A d \in Deliveries :
        tasks[d].payload.eventType # "ManualScan" =>
            tasks[d].payload.kind \in {"series", "movie"}

\* C12: a payload with a missing or empty eventType is answered with a 400
\* error response; no task exists for it (every task has a non-empty
\* eventType and there are exactly as many tasks as acknowledgments), so no
\* instance or media-server request is issued for it.
C12_EmptyEventTypeRejected ==
    /\ \A d \in Deliveries : tasks[d].payload.eventType # ""
    /\ \A k \in 1..Len(responses) :
          responses[k].event_type = "" =>
              /\ responses[k].status_code = 400
              /\ responses[k].status = "error"
              /\ \A d \in Deliveries : tasks[d].id # responses[k].webhook_id
    /\ Len(tasks) = Cardinality({k \in 1..Len(responses) : responses[k].status = "received"})

\* a payload without eventType was answered with 400 and no task exists
C12_Witness ==
    /\ tasks = <<>>
    /\ Len(responses) = 1
    /\ responses[1].status_code = 400
    /\ responses[1].event_type = ""

\* the instances a delivery sent any request to
Contacted(t) == {n \in InstanceNames : \E l \in 1..Len(t.log) : t.log[l].target = n}

\* the instances of the payload's product that opted in to its event type,
\* Download read as Import
OptedInNames(p) ==
    LET et == IF p.eventType = "Download" THEN "Import" ELSE p.eventType
        sel == Selected(p, et)
    IN  {sel[k].name : k \in 1..Len(sel)}

\* C13: in every finished delivery that reached the instance selection, the
\* instances that received a request are exactly the instances that opted
\* in to the normalized event type, compared without case.
C13_ExactlyOptedIn ==
    \A d \in Deliveries :
        (tasks[d].pc = "done" /\ Selects(tasks[d].payload)) =>
            Contacted(tasks[d]) = OptedInNames(tasks[d].payload)

\* a is a literal prefix of b
Begins(b, a) == Len(a) <= Len(b) /\ \A k \in 1..Len(a) : b[k] = a[k]

\* path with its first Len(f) symbols replaced by t
Swapped(path, f, t) == t \o SubSeq(path, Len(f) + 1, Len(path))

\* the result the first rule among the positions K gives, the path itself
\* if K is empty
FirstOf(K, path, rules) ==
    IF K = {} THEN path
    ELSE LET k == CHOOSE k \in K : \A m \in K : k <= m
         IN  Swapped(path, rules[k].from_path, rules[k].to_path)

Rewritten == eval.fn = "rewrite_path" /\ eval.calls >= 1

\* C15 as stated: the result is the path itself if no rule's from_path is a
\* prefix of it, else the path with that prefix replaced once by the to_path
\* of the first rule, in list order, whose from_path is a prefix.
C15_FirstPrefixRuleWins ==
    Rewritten =>
        eval.once = FirstOf({k \in 1..Len(eval.rules) : Begins(eval.path, eval.rules[k].from_path)},
                            eval.path, eval.rules)

\* C15: rules whose from_path or to_path is empty are passed over; the
\* result is the path itself if no other rule's from_path is a prefix of it,
\* else the path with that prefix replaced once by the to_path of the first
\* such rule in list order (not the longest), the remainder kept.
C15_FirstCompleteRuleWins ==
    Rewritten =>
        eval.once = FirstOf({k \in 1..Len(eval.rules) :
                                /\ eval.rules[k].from_path # <<>>
                                /\ eval.rules[k].to_path # <<>>
                                /\ Begins(eval.path, eval.rules[k].from_path)},
                            eval.path, eval.rules)

\* rules [("/a","/x"), ("/a/b","/y")] and path /a/b/c give /x/b/c
C15_Witness ==
    /\ Rewritten
    /\ eval.path = <<"/", "a", "/", "b", "/", "c">>
    /\ eval.rules = <<Rule(<<"/", "a">>, <<"/", "x">>), Rule(<<"/", "a", "/", "b">>, <<"/", "y">>)>>
    /\ eval.once = <<"/", "x", "/", "b", "/", "c">>

\* no rule's to_path begins with any rule's from_path
NoChain(rules) ==
    \A i \in 1..Len(rules), j \in 1..Len(rules) :
        ~Begins(rules[i].to_path, rules[j].from_path)

\* no rule's from_path begins with any rule's to_path
NoExtension(rules) ==
    \A i \in 1..Len(rules), j \in 1..Len(rules) :
        ~Begins(rules[j].from_path, rules[i].to_path)

RewrittenTwice == eval.fn = "rewrite_path" /\ eval.calls = 2

\* C16 as stated: if no rule's to_path begins with any rule's from_path,
\* rewriting the result again gives the same result.
C16_IdempotentNoChain ==
    (RewrittenTwice /\ NoChain(eval.rules)) => eval.twice = eval.once

\* C16: if no rule's to_path begins with any rule's from_path and no rule's
\* from_path begins with any rule's to_path, rewriting the result again
\* gives the same result.
C16_Idempotent ==
    (RewrittenTwice /\ NoChain(eval.rules) /\ NoExtension(eval.rules)) => eval.twice = eval.once

\* a path that a rule rewrote and that the second call left alone
C16_Witness ==
    /\ RewrittenTwice /\ NoChain(eval.rules) /\ NoExtension(eval.rules)
    /\ Len(eval.rules) = 2
    /\ eval.once # eval.path
    /\ eval.twice = eval.once

\* the rewrite rules the configuration holds for a server name
RewriteOf(name) ==
    LET k == CHOOSE k \in 1..Len(config.media_servers) : config.media_servers[k].name = name
    IN  config.media_servers[k].rewrite

\* C14: the path passed to the scan adapter of a server is the scan path
\* rewritten by that server's rules: rewrite_path(path, server.rewrite).
C14_AdapterPathRewritten ==
    \A d \in Deliveries :
        \A k \in 1..Len(tasks[d].sent) :
            tasks[d].sent[k].path
                = rewrite_path(tasks[d].scanPath, RewriteOf(tasks[d].sent[k].server))

\* a delivery whose scan_path call has returned
ScanReturned(t) == t.scanned /\ t.pc = "done"

\* C19: with no servers, all servers disabled or only servers of an
\* unsupported type, scan_path returns exactly one entry of status error and
\* sends no scan request; no scan_path call returns an empty list, and every
\* call returns a list (it does not raise).
C19_NoServersSingleError ==
    \A d \in Deliveries :
        LET t == tasks[d] IN
        /\ (t.scanned /\ EnabledSupported = <<>>) =>
              /\ CallsTo(t, "scan", "plex") \cup CallsTo(t, "scan", "jelly")
                    \cup CallsTo(t, "scan", "emby") \cup CallsTo(t, "scan", "kodi") = {}
              /\ t.pc \notin {"scan"}
              /\ t.pc = "done" =>
                    /\ Len(t.scanResults) = 1
                    /\ t.scanResults[1].status = "error"
        /\ ScanReturned(t) => Len(t.scanResults) >= 1

\* a returned scan over a configuration whose only server is of an
\* unsupported type
C19_Witness ==
    \E d \in Deliveries :
        /\ ScanReturned(tasks[d])
        /\ Len(config.media_servers) = 1
        /\ config.media_servers[1].type = "kodi"
        /\ tasks[d].scanResults = <<SyntheticError>>

\* the positions of the sync-delay suspension in a delivery's trace
DelaySleeps(t) ==
    {l \in 1..Len(t.log) : t.log[l].op = "sleep" /\ t.log[l].target = "delay"}

\* C20: a delivery with sync_delay > 0 suspends for the sync delay exactly
\* once, as its first step: until that suspension has ended the delivery has
\* made no instance call and no scan request.
C20_DelayOnceFirst ==
    \A d \in Deliveries :
        LET t == tasks[d] IN
        (Positive(t.sync_delay) /\ t.pc # "scheduled") =>
            /\ DelaySleeps(t) = {1}
            /\ t.pc = "delay" => Len(t.log) = 1

\* a finished delivery with a sync delay that looked a series up on an
\* instance and sent a scan request
C20_Witness ==
    \E d \in Deliveries :
        LET t == tasks[d] IN
        /\ Positive(t.sync_delay) /\ t.pc = "done"
        /\ \E l \in 2..Len(t.log) : t.log[l].op = "lookup"
        /\ \E l \in 2..Len(t.log) : t.log[l].op = "scan"

\* the candidates of a Plex section selection that has chosen a section
PlexCands == MatchingSections(eval.sections, eval.library_type)

PlexSelected == eval.fn = "_scan_plex" /\ eval.section_id # 0

\* the candidates whose root location is a string prefix of the scan path
PrefixHits ==
    {k \in 1..Len(PlexCands) :
        Begins(as_posix(eval.path), as_posix(PlexCands[k].location_path))}

\* the candidates whose root location occurs somewhere in the scan path
SubstringHits ==
    {k \in 1..Len(PlexCands) :
        \E at \in 1..Len(as_posix(eval.path)) :
            Begins(SubSeq(as_posix(eval.path), at, Len(as_posix(eval.path))),
                   as_posix(PlexCands[k].location_path))}

Least(K) == CHOOSE k \in K : \A h \in K : k <= h

\* C17: the section the Plex adapter selects is the first candidate in
\* declared order whose root location is a prefix of the scan path, also
\* when an earlier candidate contains-matches; substring containment decides
\* only when no candidate matches by prefix.
C17_PrefixTierFirst ==
    PlexSelected =>
        /\ PrefixHits # {} => eval.section_id = PlexCands[Least(PrefixHits)].key
        /\ PrefixHits = {} => eval.section_id = PlexCands[Least(SubstringHits)].key

\* the root location is a prefix of the path that ends at a separator
BoundaryPrefix(path, location_path) ==
    /\ Begins(as_posix(path), as_posix(location_path))
    /\ \/ Len(as_posix(path)) = Len(as_posix(location_path))
       \/ as_posix(path)[Len(as_posix(location_path)) + 1] = "/"

\* the keys of the candidate sections with a root location that is a
\* directory-boundary prefix of the scan path
BoundaryKeys ==
    {PlexCands[k].key : k \in {k \in 1..Len(PlexCands) :
        BoundaryPrefix(eval.path, PlexCands[k].location_path)}}

\* the keys of the candidate sections that match the scan path by string
\* prefix only
LexicalOnlyKeys ==
    {PlexCands[k].key : k \in PrefixHits} \ BoundaryKeys

\* C18: when some candidate section's root location is a directory-boundary
\* prefix of the scan path, the Plex adapter does not select a section whose
\* root location is only a string prefix of it, in any declared order.
C18_BoundaryBeatsLexical ==
    (PlexSelected /\ BoundaryKeys # {}) => eval.section_id \notin LexicalOnlyKeys

\* the handlers with an instance loop that process_webhook can enter
LoopHandlers ==
    {"handle_sonarr_grab", "handle_sonarr_import", "handle_sonarr_series_add",
     "handle_sonarr_delete"}

\* positions of the sleeps of one kind in a delivery's trace
Sleeps(t, kind) == {l \in 1..Len(t.log) : t.log[l].op = "sleep" /\ t.log[l].target = kind}

\* positions of the calls to the k-th selected instance
InstanceCalls(t, k) == {l \in 1..Len(t.log) : t.log[l].target = t.instances[k].name}

\* positions of the scan requests
ScanCalls(t) == {l \in 1..Len(t.log) : t.log[l].op = "scan"}

\* the instance loop of the handler is over
LoopOver(t) == t.pc \in {"prescan", "scan", "done"}

\* C21: in a handler that processes N >= 1 instances with sync_interval > 0
\* the r-th interval suspension lies after every call to instances 1..r and
\* before every call to instances r+1..N (none before the first instance,
\* one between two consecutive instances, N-1 after the loop), and a scan
\* phase is preceded by exactly one more suspension, after the last instance
\* call and before the first scan request.
C21_IntervalBetween ==
    \A d \in Deliveries :
        LET t == tasks[d]
            N == Len(t.instances)
            Iv == Sleeps(t, "interval")
            Rank(l) == Cardinality({m \in Iv : m <= l})
        IN  (t.handler \in LoopHandlers /\ N >= 1 /\ Positive(t.sync_interval)) =>
            /\ \A l \in Iv :
                  /\ Rank(l) <= N - 1
                  /\ InstanceCalls(t, Rank(l)) # {}
                  /\ \A k \in 1..N : \A c \in InstanceCalls(t, k) :
                        IF k <= Rank(l) THEN c < l ELSE c > l
            /\ LoopOver(t) => Cardinality(Iv) = N - 1
            /\ t.pc = "interval" => t.log[Len(t.log)] = Call("sleep", "interval", TRUE)
            /\ (t.scanned \/ t.pc = "prescan") =>
                  /\ Cardinality(Sleeps(t, "prescan")) = 1
                  /\ \A l \in Sleeps(t, "prescan") :
                        /\ \A k \in 1..N : \A c \in InstanceCalls(t, k) : c < l
                        /\ \A c \in ScanCalls(t) : l < c
            /\ ~(t.scanned \/ t.pc = "prescan") => Sleeps(t, "prescan") = {}

\* a finished Import over two instances with a positive interval that slept
\* once between the instances and once before its scan requests
C21_Witness ==
    \E d \in Deliveries :
        LET t == tasks[d] IN
        /\ t.handler = "handle_sonarr_import" /\ t.pc = "done"
        /\ Positive(t.sync_interval) /\ Len(t.instances) = 2
        /\ Cardinality(Sleeps(t, "interval")) = 1
        /\ Cardinality(Sleeps(t, "prescan")) = 1
        /\ ScanCalls(t) # {}

\* the names of the entries of a list of instances or servers
NamesOf(list) == {list[k].name : k \in 1..Len(list)}

\* the supported servers of a list that are not disabled
EnabledOf(servers) ==
    LET Want(srv) == srv.type \in {"plex", "jellyfin", "emby"} /\ srv.enabled # "false"
    IN  SelectSeq(servers, Want)

\* the targets of the calls of one kind in a delivery's trace
Targets(t, ops) == {t.log[l].target : l \in {l \in 1..Len(t.log) : t.log[l].op \in ops}}

\* C22: a delivery that was suspended in its sync delay or a sync interval
\* when the dashboard changed the configuration has, once finished, called
\* exactly the instances selected from the instance list as it was before
\* the change and sent scan requests to exactly the enabled servers of the
\* media server list as it was before the change.
C22_ChangeNotSeenInFlight ==
    \A o \in (IF eval.fn = "dashboard" THEN eval.seen ELSE {}) :
        LET t == tasks[o.d] IN
        t.pc = "done" =>
            /\ Targets(t, {"lookup", "create", "search"})
                  = NamesOf(ValidInstances(o.sonarr_instances, Normalize(t.payload.eventType)))
            /\ t.payload.eventType = "Import" =>
                  Targets(t, {"scan"}) = NamesOf(EnabledOf(o.media_servers))

\* the outcomes process_webhook returns
TerminalOutcomes == {"ok", "warning", "ignored", "error"}

\* C23: every delivery whose task was created reaches the terminal state in
\* which process_webhook has returned, for every payload and configuration
\* and whether the outbound calls answer or raise, and what it returns is an
\* outcome (an exception is returned as an error outcome, never raised).
C23_AlwaysTerminates ==
    /\ \A d \in 1..MaxDeliveries :
          (d <= Len(tasks)) ~> (d <= Len(tasks) /\ tasks[d].pc = "done")
    /\ [](\A d \in Deliveries :
            /\ tasks[d].pc \in {"scheduled", "delay", "interval", "lookup", "mutate",
                                "prescan", "settle", "scan", "done"}
            /\ tasks[d].pc = "done" => tasks[d].ret.status \in TerminalOutcomes)

\* a delivery that ended in an error outcome after an outbound call raised
C23_Witness ==
    \E d \in Deliveries :
        /\ tasks[d].pc = "done" /\ tasks[d].ret.status = "error"
        /\ \E l \in 1..Len(tasks[d].log) : ~tasks[d].log[l].ok

\* C24: in the zero-instance Import case the path handed to the scan
\* dispatcher is the file-level path of the payload (episodeFile.path,
\* movieFile.path) when it is non-empty, and the folder-level path
\* (series.path, movie.folderPath) otherwise.
C24_FilePathPreferred ==
    \A d \in Deliveries :
        LET t == tasks[d] IN
        (t.handler = "noinst" /\ t.scanned) =>
            t.scanPath = IF t.payload.filePath # NoPath THEN t.payload.filePath
                         ELSE t.payload.path

\* a ManualScan body without path or contentType, or with another contentType
BadManualScan(p) ==
    p.eventType = "ManualScan"
    /\ (p.path = NoPath \/ p.contentType \notin {"series", "movie"})

\* C25: a ManualScan delivery calls no series / movie manager instance; when
\* its path or contentType is missing or its contentType is neither series
\* nor movie it sends no scan request either and ends in an error outcome.
C25_ManualScanBypasses ==
    \A d \in Deliveries :
        LET t == tasks[d] IN
        t.payload.eventType = "ManualScan" =>
            /\ Contacted(t) = {}
            /\ t.instances = <<>>
            /\ BadManualScan(t.payload) =>
                  /\ ScanCalls(t) = {}
                  /\ ~t.scanned
                  /\ t.pc \in {"scheduled", "delay", "done"}
                  /\ t.pc = "done" => t.ret.status = "error"

\* a finished ManualScan for contentType music, with a path and two enabled
\* servers configured
C25_Witness ==
    \E d \in Deliveries :
        LET t == tasks[d] IN
        /\ t.payload.eventType = "ManualScan" /\ t.pc = "done"
        /\ t.payload.contentType = "music" /\ t.payload.path # NoPath
        /\ Len(EnabledSupported) = 2

\* the value of an integer written in decimal digits
RECURSIVE IntegerOf(_)
IntegerOf(s) ==
    IF s = <<>> THEN 0
    ELSE 10 * IntegerOf(SubSeq(s, 1, Len(s) - 1))
         + (CHOOSE v \in 0..9 : <<"0", "1", "2", "3", "4", "5", "6", "7", "8", "9">>[v + 1] = s[Len(s)])

IsInteger(s) ==
    s # <<>> /\ \A k \in 1..Len(s) : s[k] \in {"0", "1", "2", "3", "4", "5", "6", "7", "8", "9"}

\* the seconds, as a fraction, that the format "integer with optional ms, s
\* or m" gives a string, 0 for a string not of that format
SecondsOf(s) ==
    LET n == Len(s) IN
    IF IsInteger(s) THEN <<IntegerOf(s), 1>>
    ELSE IF n >= 3 /\ SubSeq(s, n - 1, n) = <<"m", "s">> /\ IsInteger(SubSeq(s, 1, n - 2))
    THEN <<IntegerOf(SubSeq(s, 1, n - 2)), 1000>>
    ELSE IF n >= 2 /\ s[n] = "s" /\ IsInteger(SubSeq(s, 1, n - 1))
    THEN <<IntegerOf(SubSeq(s, 1, n - 1)), 1>>
    ELSE IF n >= 2 /\ s[n] = "m" /\ IsInteger(SubSeq(s, 1, n - 1))
    THEN <<60 * IntegerOf(SubSeq(s, 1, n - 1)), 1>>
    ELSE <<0, 1>>

\* C26: parse_time_string returns N/1000 for Nms, N for Ns, 60*N for Nm and
\* N for a bare integer N, returns 0 for every other string, and never
\* raises.
C26_TimeStringFormat ==
    (eval.fn = "parse_time_string" /\ eval.calls = 1) =>
        /\ eval.ret # ValueError
        /\ eval.ret[1] * SecondsOf(eval.time_str)[2] = SecondsOf(eval.time_str)[1] * eval.ret[2]

\* the configured series instance of a name
SonarrNamed(n) ==
    sonarr_instances[CHOOSE k \in 1..Len(sonarr_instances) : sonarr_instances[k].name = n]

\* the trace has a search command to instance n right after position l
SearchFollows(t, l, n) ==
    l + 1 <= Len(t.log) /\ t.log[l + 1].op = "search" /\ t.log[l + 1].target = n

\* the create requests of a delivery match its trace, each is sent right
\* after an answered existence check that found no record, and each carries
\* the root folder and quality profile of its instance with automatic search
\* off
CreateGuarded(t) ==
    /\ Cardinality({l \in 1..Len(t.log) : t.log[l].op = "create"}) = Len(t.posted)
    /\ \A k \in 1..Len(t.posted) :
          LET c == t.posted[k]
              inst == SonarrNamed(c.instance)
          IN  /\ t.log[c.at].op = "create" /\ t.log[c.at].target = c.instance
              /\ c.at > 1
              /\ t.log[c.at - 1] = Call("lookup", c.instance, TRUE)
              /\ ~c.existing_series
              /\ c.body.rootFolderPath = inst.root_folder_path
              /\ c.body.qualityProfileId = inst.quality_profile_id
              /\ ~c.body.searchForMissingEpisodes

\* C27 as stated: in the series Grab, Import and SeriesAdd handlers a create
\* request is sent only after an existence check without record, carries the
\* instance's root folder and quality profile with automatic search off, and
\* a search command follows a create if and only if the instance's
\* search_on_sync flag is set.
C27_CreateThenSearchIffFlag ==
    \A d \in Deliveries :
        LET t == tasks[d] IN
        t.handler \in CreatingHandlers =>
            /\ CreateGuarded(t)
            /\ \A k \in 1..Len(t.posted) :
                  SearchFollows(t, t.posted[k].at, t.posted[k].instance)
                      <=> SonarrNamed(t.posted[k].instance).search_on_sync

\* C27, amended: as above, but a search command follows a create that
\* succeeded if and only if the flag is set, and none follows a create that
\* raised.
C27_CreateGuardedSearchOnSuccess ==
    \A d \in Deliveries :
        LET t == tasks[d] IN
        t.handler \in CreatingHandlers =>
            /\ CreateGuarded(t)
            /\ \A k \in 1..Len(t.posted) :
                  SearchFollows(t, t.posted[k].at, t.posted[k].instance)
                      <=> (t.log[t.posted[k].at].ok
                           /\ SonarrNamed(t.posted[k].instance).search_on_sync)

\* a finished delivery that created the series on an instance with
\* search_on_sync, searched there, and created it on an instance without the
\* flag
C27_Witness ==
    \E d \in Deliveries :
        LET t == tasks[d] IN
        /\ t.handler \in CreatingHandlers /\ t.pc = "done"
        /\ \E k, m \in 1..Len(t.posted) :
              /\ t.log[t.posted[k].at].ok /\ t.log[t.posted[m].at].ok
              /\ SonarrNamed(t.posted[k].instance).search_on_sync
              /\ SearchFollows(t, t.posted[k].at, t.posted[k].instance)
              /\ ~SonarrNamed(t.posted[m].instance).search_on_sync

\* the instances for which the Import handler recorded an existing series
FoundExisting(t) ==
    {t.entries[k].instance :
        k \in {k \in 1..Len(t.entries) : t.entries[k].key = "existingSeriesId"}}

\* C28: in the Import handler an instance that already has the series
\* receives a metadata-refresh command followed by a rescan command, and no
\* create request.
C28_ExistingRefreshedRescanned ==
    \A d \in Deliveries :
        LET t == tasks[d] IN
        t.handler = "handle_sonarr_import" =>
            \A n \in FoundExisting(t) :
                /\ CallsTo(t, "create", n) = {}
                /\ \E l \in CallsTo(t, "refresh", n) : \E m \in CallsTo(t, "rescan", n) : l < m

\* C29: a finished delivery of a handled event (Grab, Import, delete, add)
\* with at least one selected instance and a non-empty content path has
\* invoked the scan dispatcher once, after its last instance call, and
\* yields per-instance results as well as scan results.
C29_SyncThenScan ==
    \A d \in Deliveries :
        LET t == tasks[d] IN
        (/\ t.handler \in LoopHandlers
         /\ Len(t.instances) >= 1
         /\ t.payload.path # NoPath
         /\ t.pc = "done") =>
            /\ t.scanned
            /\ \A k \in 1..Len(t.instances) : \A c \in InstanceCalls(t, k) :
                  \A m \in ScanCalls(t) : c < m
            /\ Len(t.entries) = Len(t.instances)
            /\ t.scanResults # <<>>

\* C30: when the series Import handler runs with at least one instance, the
\* scan dispatcher is invoked with episodeFile.path when the payload has
\* one, and with the series folder path only when it has none.
C30_ImportScansFilePath ==
    \A d \in Deliveries :
        LET t == tasks[d] IN
        (t.handler = "handle_sonarr_import" /\ Len(t.instances) >= 1 /\ t.scanned) =>
            t.scanPath = IF t.payload.filePath # NoPath THEN t.payload.filePath
                         ELSE t.payload.path

\* C31: the value a finished SeriesDelete / EpisodeFileDelete delivery
\* returns holds one deletion entry per selected instance, in order, whether
\* the series path of the payload is empty or not.
C31_DeletionsReturned ==
    \A d \in Deliveries :
        LET t == tasks[d] IN
        (t.handler = "handle_sonarr_delete" /\ t.pc = "done") =>
            /\ Len(t.ret.perInstance) = Len(t.instances)
            /\ \A k \in 1..Len(t.instances) :
                  t.ret.perInstance[k].instance = t.instances[k].name

\* the servers of the scan requests of a delivery, in the order of sending
RECURSIVE ScanOrder(_)
ScanOrder(log) ==
    IF log = <<>> THEN <<>>
    ELSE IF Head(log).op = "scan" THEN <<Head(log).target>> \o ScanOrder(Tail(log))
    ELSE ScanOrder(Tail(log))

\* C32: within one delivery the outbound operations are strictly sequential:
\* every call to instance k has finished before any call to instance k+1,
\* while an instance is being processed its predecessors have their entries
\* and no scan request has been sent, every instance call precedes the first
\* scan request, and the servers are scanned one after another in order,
\* the result of a server being recorded before the next request is sent.
C32_StrictlySequential ==
    \A d \in Deliveries :
        LET t == tasks[d]
            N == Len(t.instances)
        IN  /\ \A k \in 1..N : \A m \in 1..N :
                  k < m => \A c \in InstanceCalls(t, k) : \A e \in InstanceCalls(t, m) : c < e
            /\ \A k \in 1..N : \A c \in InstanceCalls(t, k) : \A m \in ScanCalls(t) : c < m
            /\ t.pc \in {"lookup", "mutate", "interval"} =>
                  /\ Len(t.entries) = t.i - 1
                  /\ \A k \in t.i + 1..N : InstanceCalls(t, k) = {}
                  /\ ScanCalls(t) = {}
            /\ t.pc = "scan" =>
                  /\ Len(t.scanResults) = t.j - 1
                  /\ ScanOrder(t.log) = [k \in 1..t.j - 1 |-> t.active[k].name]
            /\ Len(t.scanResults) \in {Cardinality(ScanCalls(t)), Cardinality(ScanCalls(t)) + 1}

\* a finished Import that made calls to two instances and then sent two
\* scan requests
C32_Witness ==
    \E d \in Deliveries :
        LET t == tasks[d] IN
        /\ t.pc = "done" /\ Len(t.instances) = 2
        /\ InstanceCalls(t, 1) # {} /\ InstanceCalls(t, 2) # {}
        /\ Cardinality(ScanCalls(t)) = 2

\* the requests of a delivery with the given operation and target
CallsOf(t, op, target) ==
    {l \in 1..Len(t.log) : t.log[l].op = op /\ t.log[l].target = target}

\* the per-instance entries a delivery has recorded for an instance
EntriesOf(t, name) == {k \in 1..Len(t.entries) : t.entries[k].instance = name}

\* C33: within one delivery each selected instance is visited exactly once
\* (no operation is sent to it twice, and when the loop is over it has exactly
\* one entry, in the order of selection), each media server receives at most
\* one scan request, and a failed request is the last one its target receives.
C33_NoRetry ==
    \A d \in Deliveries :
        LET t == tasks[d]
            N == Len(t.instances)
        IN  /\ \A l \in 1..Len(t.log) :
                  t.log[l].op # "sleep" =>
                      /\ Cardinality(CallsOf(t, t.log[l].op, t.log[l].target)) = 1
                      /\ ~t.log[l].ok =>
                            \A m \in l + 1..Len(t.log) : t.log[m].target # t.log[l].target
            /\ \A k \in 1..N : Cardinality(EntriesOf(t, t.instances[k].name)) <= 1
            /\ (t.handler \in LoopHandlers /\ LoopOver(t)) =>
                  /\ Len(t.entries) = N
                  /\ \A k \in 1..N : t.entries[k].instance = t.instances[k].name
            /\ Len(t.scanResults) <= Len(t.active) + 1

\* a finished delivery in which an instance request and a scan request failed
C33_Witness ==
    \E d \in Deliveries :
        LET t == tasks[d] IN
        /\ t.pc = "done"
        /\ \E l \in 1..Len(t.log) : t.log[l].op = "scan" /\ ~t.log[l].ok
        /\ \E l \in 1..Len(t.log) : t.log[l].op \notin {"scan", "sleep"} /\ ~t.log[l].ok

\* C34: in every handler a create or delete request sent to an instance,
\* the file-only delete included, is preceded by a successful lookup by
\* catalog id on that instance.
C34_LookupBeforeMutation ==
    \A d \in Deliveries :
        LET t == tasks[d] IN
        \A l \in 1..Len(t.log) :
            t.log[l].op \in {"create", "delete", "delete_file"} =>
                \E m \in 1..l - 1 : t.log[m] = Call("lookup", t.log[l].target, TRUE)

\* the sections of the server's answer whose type is the content kind's
SectionsOfKind ==
    {k \in 1..Len(eval.sections) :
        eval.sections[k].type = (IF eval.library_type = "Series" THEN "show" ELSE "movie")}

\* some root location of section k occurs in the scan path
RootMatches(k) ==
    \E l \in 1..Len(eval.sections[k].Location) :
        \E at \in 1..Len(as_posix(eval.path)) :
            Begins(SubSeq(as_posix(eval.path), at, Len(as_posix(eval.path))),
                   as_posix(eval.sections[k].Location[l]))

NoSectionMatches == \A k \in SectionsOfKind : ~RootMatches(k)

\* C35: the Plex adapter selects only a section whose type is the content
\* kind's and one of whose root locations matches the path; when there is no
\* such section it raises (no libraries of the kind / no matching section,
\* unless the section list could not be fetched at all), no refresh request
\* is sent, and the dispatcher records a status-error entry for the server.
C35_NoMatchIsError ==
    eval.fn = "_scan_plex" =>
        /\ eval.section_id # 0 =>
              eval.section_id \in SectionsOfKind /\ RootMatches(eval.section_id)
        /\ eval.refreshed => eval.section_id # 0
        /\ (eval.pc # "sections" /\ NoSectionMatches) =>
              /\ eval.pc = "done" /\ eval.raised /\ ~eval.refreshed
              /\ eval.entry = "error"
              /\ eval.error \in {"Failed to get Plex sections", "No libraries found in Plex",
                                 "No matching library section found"}
              /\ eval.error = "No libraries found in Plex" => SectionsOfKind = {}
              /\ eval.error = "No matching library section found" => SectionsOfKind # {}

\* the adapter has failed for a path none of the show sections' locations
\* matches, while a movie section's location does match it
C35_Witness ==
    /\ eval.fn = "_scan_plex" /\ eval.pc = "done"
    /\ eval.error = "No matching library section found"
    /\ eval.entry = "error" /\ ~eval.refreshed
    /\ \E k \in 1..Len(eval.sections) : k \notin SectionsOfKind /\ RootMatches(k)

\* the next step of delivery e, whichever it is
Runs(e) == StartTask(e) \/ Wake(e) \/ Lookup(e) \/ Mutate(e) \/ Scan(e)

\* C36: while a delivery is suspended in its sync delay or in an interval,
\* the service can acknowledge a further webhook, and every other unfinished
\* delivery can take its next step, in both cases with the suspended
\* delivery staying suspended: a suspended delivery never blocks another one.
C36_SuspendedNeverBlocks ==
    \A d \in Suspended :
        /\ Len(responses) < MaxDeliveries =>
              ENABLED (/\ webhook_handler(MaxDeliveries, RedeliveryPayloads)
                       /\ tasks'[d] = tasks[d]
                       /\ responses'[Len(responses')].status_code = 200)
        /\ \A e \in Deliveries \ {d} :
              tasks[e].pc # "done" => ENABLED (Runs(e) /\ tasks'[d] = tasks[d])

\* the first delivery is still in its sync delay while the second webhook
\* has been acknowledged and its delivery has run to completion, scan included
C36_Witness ==
    /\ Len(tasks) = 2
    /\ tasks[1].pc = "delay" /\ tasks[1].log = <<Call("sleep", "delay", TRUE)>>
    /\ responses[2].status_code = 200
    /\ tasks[2].pc = "done" /\ ScanCalls(tasks[2]) # {}

\* C37: in the Grab, Import and SeriesAdd handlers a per-instance entry with
\* status error implies that no record was created on that instance during
\* the delivery.
C37_ErrorMeansNotCreated ==
    \A d \in Deliveries :
        LET t == tasks[d] IN
        t.handler \in CreatingHandlers =>
            \A k \in 1..Len(t.entries) :
                t.entries[k].status = "error" =>
                    CallsOf(t, "create", t.entries[k].instance) \cap
                        {l \in 1..Len(t.log) : t.log[l].ok} = {}

\* the servers a webhook-triggered scan of the current configuration targets
WebhookScanTargets ==
    LET on == ActiveServers(SupportedServers(config.media_servers))
    IN  {on[k].name : k \in 1..Len(on)}

\* C38: a finished manual scan with a path and a valid content type has sent
\* a scan request to exactly the servers the scanner treats as enabled, the
\* servers whose entry has no enabled key included.
C38_ManualScanSameServers ==
    \A d \in Deliveries :
        LET t == tasks[d] IN
        (/\ t.payload.eventType = "ManualScan" /\ t.pc = "done"
         /\ t.payload.path # NoPath /\ t.payload.contentType \in {"series", "movie"}) =>
            {t.log[l].target : l \in ScanCalls(t)} = WebhookScanTargets

\* C39: a delivery that ends as ignored (event type outside the product's
\* webhook_events list, no handler branch for the event, or no selected
\* instance) has sent no request to any instance and none to any media
\* server: its only awaits were sleeps.
C39_IgnoredSendsNothing ==
    \A d \in Deliveries :
        LET t == tasks[d] IN
        (t.pc = "done" /\ t.ret.status = "ignored") =>
            /\ \A l \in 1..Len(t.log) : t.log[l].op = "sleep"
            /\ t.sent = <<>> /\ t.posted = <<>> /\ ~t.scanned
            /\ t.entries = <<>> /\ t.ret.scanResults = <<>>
            /\ \/ t.payload.eventType \notin config.webhook_events[t.product]
               \/ t.instances = <<>>
               \/ HandlerFor(t.product, t.event_type) = "none"

\* an ignored delivery of an event without handler branch, with an instance
\* opted in to it and configured media servers
C39_Witness ==
    \E d \in Deliveries :
        LET t == tasks[d] IN
        /\ t.pc = "done" /\ t.ret.status = "ignored"
        /\ t.instances # <<>> /\ config.media_servers # <<>>

\* C40: once a Sonarr webhook with eventType Download that passed the
\* webhook_events check has been routed, every instance whose enabled_events
\* lists Download and not Import is among the selected instances.
C40_DownloadOnlySelected ==
    \A d \in Deliveries :
        LET t == tasks[d] IN
        (/\ t.payload.eventType = "Download" /\ t.payload.kind = "series" /\ t.payload.valid
         /\ "Download" \in config.webhook_events.sonarr
         /\ t.pc \notin {"scheduled", "delay"}) =>
            \A k \in 1..Len(sonarr_instances) :
                ("Download" \in sonarr_instances[k].enabled_events
                    /\ "Import" \notin sonarr_instances[k].enabled_events) =>
                    \E m \in 1..Len(t.instances) :
                        t.instances[m].name = sonarr_instances[k].name

====
